---- MODULE Spec2Model ----
(***************************************************************************)
(* Container pool manager of backend/app/docker/container_manager.py.      *)
(*                                                                         *)
(* ContainerPool keeps a dict id -> ContainerWrapper (insertion ordered)   *)
(* and a dict language -> set of ids, both touched under ContainerPool's   *)
(* own RLock.  ContainerManager wraps every public operation in a second   *)
(* RLock of its own.  Caller threads run the manager's operations; the     *)
(* pool's periodic cleanup task runs cleanup_idle_containers on its own.   *)
(* A step of a thread is one stretch of code that no other thread can      *)
(* split: a region under the pool lock, or the code between two such       *)
(* regions.                                                                *)
(*                                                                         *)
(* File bridge of backend/app/docker/file_manager.py: SecurePathValidator, *)
(* DockerFileTransfer (copies between host and container, mount            *)
(* specifications) and FileManager with its TemporaryFileManager.  Paths   *)
(* and file names are strings, handled character by character as the code  *)
(* handles them.                                                           *)
(***************************************************************************)
EXTENDS Integers, Sequences, FiniteSets, TLC

\* ---------------------------------------------------------------- bounds
MaxIds == 3
NumThreads == 2
MaxTime == 2
MaxFiles == 3

\* ------------------------------------------- configuration of the manager
max_pool_size == 2

None == 0
Ids == 1..MaxIds
Threads == 1..NumThreads
NoLang == "none"
Langs == {"python", "java"}
ContainerStatus == {"created", "running", "paused", "restarting", "removing", "exited", "dead"}
Terminal == {"exited", "dead"}
\* statuses a caller-built descriptor is registered with
StatusInputs == {"running", "exited", "dead"}
ExitKinds == {"normal", "exception", "cancelled"}

VARIABLES
    now,             \* time.time()
    idle_timeout,    \* ContainerPool.idle_timeout, set by the constructor
    wrappers,        \* the ContainerWrapper objects, by container id
    pool_keys,       \* keys of ContainerPool._pool in insertion order
    language_pools,  \* ContainerPool._language_pools
    runtime,         \* ids of the containers that exist in the runtime
    next_id,         \* the id the runtime gives to the next container
    lock_owner,      \* thread holding ContainerManager._lock, or None
    cleanup_task,    \* ContainerPool._cleanup_task
    pc,              \* where each caller thread is
    loc,             \* the wrapper a thread holds in a local variable
    arg,             \* the language argument of the call in progress
    scope,           \* phase of the thread's get_container() scope: "none",
                     \* "acquire", a language (about to create), "body"
    held,            \* container_id of the thread's get_container() scope
    ret,             \* what the thread's last call returned or raised
    runtime_calls,   \* the stop and remove calls the manager operation in
                     \* progress has made to the runtime
    container_ids,   \* the list container_ids of cleanup_all_containers
    container_config,\* the configuration the create call in progress has
    pool_pass,       \* a cleanup pass between its two loops: the list it collected
                     \* passed to the runtime
    cwd,             \* the current working directory of the process
    host_files,      \* the files of the host, content by absolute path
    host_dirs,       \* the directories the bridge has created on the host
    archives,        \* what put_archive has put into the container, by
                     \* directory
    temp_files,      \* TemporaryFileManager.temp_files
    next_file_id,    \* stands for the next uuid4
    fret,            \* what the last call of the file bridge returned or
                     \* raised
    context_file_id, \* the local file_id of the temporary_file_context in
                     \* progress, None when no scope is open
    file_cleanup_task, \* TemporaryFileManager._cleanup_task
    tasks            \* how many reclamation tasks exist (created and not
                     \* finished), for the pool and for the file store

poolVars == <<wrappers, pool_keys, language_pools, runtime, next_id>>
threadVars == <<pc, loc, arg, scope, held, ret>>
opVars == <<runtime_calls, container_ids, container_config, pool_pass>>
fileVars == <<cwd, host_files, host_dirs, archives, temp_files, next_file_id, fret,
              context_file_id, file_cleanup_task>>
\* the variables of the container manager, for the operations of the file bridge
containerVars == <<now, idle_timeout, poolVars, lock_owner, cleanup_task, threadVars, opVars>>
vars == <<now, idle_timeout, wrappers, pool_keys, language_pools, runtime, next_id,
          lock_owner, cleanup_task, pc, loc, arg, scope, held, ret,
          runtime_calls, container_ids, container_config, pool_pass,
          cwd, host_files, host_dirs, archives, temp_files, next_file_id, fret,
          context_file_id, file_cleanup_task, tasks>>

\* ---------------------------------------------------------------- helpers
Range(s) == {s[i] : i \in 1..Len(s)}
Tracked == Range(pool_keys)
Without(s, c) == SelectSeq(s, LAMBDA x : x # c)
Result(op, val, err) == [op |-> op, val |-> val, err |-> err]
NoResult == Result("none", None, "none")
\* no cleanup pass is between its two loops
NoPass == [scanned |-> FALSE, ids |-> << >>]

\* ContainerWrapper as built by its dataclass constructor
ContainerWrapper(last_used, status, in_use, language) ==
    [last_used |-> last_used, status |-> status, in_use |-> in_use, language |-> language]

\* ContainerWrapper.mark_in_use
mark_in_use(w, in_use, t) ==
    [w EXCEPT !.in_use = in_use, !.last_used = IF in_use THEN t ELSE @]

\* ContainerWrapper.update_last_used
update_last_used(w, t) == [w EXCEPT !.last_used = t]

\* wrapper objects still referenced: by the pool, or by the local variable
\* `wrapper` of a call that has not returned yet (refs)
Live(h, keys, refs) ==
    [c \in (DOMAIN h) \cap (Range(keys) \cup refs) |-> h[c]]

\* no configuration has been passed to the runtime
NoConfig ==
    [image |-> "none", volumes |-> {}, read_only |-> FALSE,
     network_mode |-> "default", cap_drop |-> {}, tmpfs |-> {}]

\* the files the host starts with
HostFiles == [p \in {"/tmp/a.py", "/etc/passwd"} |->
                 IF p = "/tmp/a.py" THEN "src" ELSE "secret"]

\* the state after ContainerManager(max_pool_size, timeout) and FileManager()
\* were constructed by a process running in directory dir
Construct(timeout, dir) ==
    /\ idle_timeout = timeout
    /\ cwd = dir
    /\ host_files = HostFiles
    /\ host_dirs = {}
    /\ archives = << >>
    /\ temp_files = << >>
    /\ next_file_id = 1
    /\ fret = NoResult
    /\ context_file_id = None
    /\ file_cleanup_task = "none"
    /\ tasks = [pool |-> 0, files |-> 0]
    /\ runtime_calls = {}
    /\ container_ids = << >>
    /\ container_config = NoConfig
    /\ pool_pass = NoPass
    /\ now = 0
    /\ wrappers = << >>
    /\ pool_keys = << >>
    /\ language_pools = << >>
    /\ runtime = {}
    /\ next_id = 1
    /\ lock_owner = None
    /\ cleanup_task = "none"
    /\ pc = [t \in Threads |-> "idle"]
    /\ loc = [t \in Threads |-> None]
    /\ arg = [t \in Threads |-> NoLang]
    /\ scope = [t \in Threads |-> "none"]
    /\ held = [t \in Threads |-> None]
    /\ ret = [t \in Threads |-> NoResult]

Init == Construct(1, "/app")

\* ------------------------------------------------- ContainerPool (pure)
\* a lookup that hands out a container whatever its in_use flag
Eligible_IgnoreInUse(w, t) ==
    /\ w.status = "running"
    /\ t - w.last_used < idle_timeout

\* a lookup that still accepts a container idle for exactly idle_timeout
Eligible_IdleInclusive(w, t) ==
    /\ ~w.in_use
    /\ w.status = "running"
    /\ t - w.last_used <= idle_timeout

\* the test both lookup loops of get_available_container apply to a wrapper
Eligible(w, t) ==
    /\ ~w.in_use
    /\ w.status = "running"
    /\ t - w.last_used < idle_timeout

\* a cleanup that evicts on idle time alone
IdleExpired_IgnoreInUse(w, t) == t - w.last_used > idle_timeout

\* a cleanup that already evicts a container idle for exactly idle_timeout
IdleExpired_Inclusive(w, t) ==
    /\ ~w.in_use
    /\ t - w.last_used >= idle_timeout

\* the test of cleanup_idle_containers
IdleExpired(w, t) ==
    /\ ~w.in_use
    /\ t - w.last_used > idle_timeout

\* first element of a sequence satisfying P, or None: a for loop with return
RECURSIVE FirstEligible(_, _, _)
FirstEligible(keys, h, t) ==
    IF keys = << >> THEN None
    ELSE IF Eligible(h[Head(keys)], t) THEN Head(keys)
    ELSE FirstEligible(Tail(keys), h, t)

\* the ids the language loop of get_available_container can return: a set is
\* iterated in an order the program does not control
LanguageCandidates(language, keys, lp, h, t) ==
    IF language # NoLang /\ language \in DOMAIN lp
    THEN {c \in lp[language] : c \in Range(keys) /\ Eligible(h[c], t)}
    ELSE {}

\* a lookup that gives up when the language loop found nothing
get_available_container_NoFallback(language, keys, lp, h, t) ==
    IF LanguageCandidates(language, keys, lp, h, t) # {}
    THEN LanguageCandidates(language, keys, lp, h, t)
    ELSE {None}

\* ContainerPool.get_available_container: the set of values it can return
get_available_container(language, keys, lp, h, t) ==
    IF LanguageCandidates(language, keys, lp, h, t) # {}
    THEN LanguageCandidates(language, keys, lp, h, t)
    ELSE {FirstEligible(keys, h, t)}

\* ContainerPool.add_container: the three structures after the call
add_container(c, w, keys, lp, h) ==
    [keys |-> IF c \in Range(keys) THEN keys ELSE Append(keys, c),
     h    |-> [x \in DOMAIN h \cup {c} |-> IF x = c THEN w ELSE h[x]],
     lp   |-> IF w.language = NoLang THEN lp
              ELSE [l \in DOMAIN lp \cup {w.language} |->
                      IF l = w.language
                      THEN (IF l \in DOMAIN lp THEN lp[l] ELSE {}) \cup {c}
                      ELSE lp[l]]]

\* ContainerPool.remove_container: the pool after the call (the wrapper object
\* itself is untouched)
remove_container(c, keys, lp, h) ==
    IF c \notin Range(keys) THEN [keys |-> keys, lp |-> lp]
    ELSE [keys |-> Without(keys, c),
          lp   |-> IF h[c].language # NoLang /\ h[c].language \in DOMAIN lp
                   THEN [lp EXCEPT ![h[c].language] = @ \ {c}]
                   ELSE lp]

\* the list containers_to_remove of cleanup_idle_containers
containers_to_remove(keys, h, t) ==
    SelectSeq(keys, LAMBDA c : IdleExpired(h[c], t))

RECURSIVE RemoveEach(_, _, _, _)
RemoveEach(ids, keys, lp, h) ==
    IF ids = << >> THEN [keys |-> keys, lp |-> lp]
    ELSE LET r == remove_container(Head(ids), keys, lp, h)
         IN RemoveEach(Tail(ids), r.keys, r.lp, h)

\* ContainerPool.cleanup_idle_containers: the pool after the call
cleanup_idle_containers(keys, lp, h, t) ==
    RemoveEach(containers_to_remove(keys, h, t), keys, lp, h)

\* ContainerPool.get_container_count
get_container_count(language) ==
    IF language # NoLang
    THEN (IF language \in DOMAIN language_pools
          THEN Cardinality(language_pools[language]) ELSE 0)
    ELSE Len(pool_keys)

\* ContainerManager._execute_command: what the call returns or raises for an
\* outcome of the runtime's exec
\* kind: the runtime's exec returned, raised ContainerError, or raised another
\* exception; timed_out: the command ran into the wall-clock timeout;
\* timeout_text: str(e).lower() contains "timeout"
ExecOutcomes ==
    {[kind |-> "ok", timed_out |-> FALSE, timeout_text |-> FALSE]} \cup
    [kind : {"ContainerError"}, timed_out : {FALSE}, timeout_text : BOOLEAN] \cup
    [kind : {"Exception"}, timed_out : BOOLEAN, timeout_text : BOOLEAN]

_execute_command(out) ==
    IF out.kind = "ok" THEN "none"
    ELSE IF out.kind = "ContainerError" THEN "ExecutionError"
    ELSE IF out.timeout_text THEN "TimeoutError"
    ELSE "ExecutionError"


\* ------------------------------------------------ container configuration
\* the volumes argument of create_and_start_container: no override, a
\* read-only bind mount, a writable bind mount
VolumeInputs ==
    {{}} \cup
    {{[host |-> "/host/src", bind |-> "/workspace", mode |-> m]} : m \in {"ro", "rw"}}

\* SecurityConfig with the defaults of its dataclass
SecurityConfig ==
    [read_only |-> TRUE, no_network |-> TRUE, drop_all_capabilities |-> TRUE]

\* SecurityConfig.to_dict
SecurityConfig_to_dict(sc) ==
    [read_only    |-> sc.read_only,
     network_mode |-> IF sc.no_network THEN "none" ELSE "default",
     cap_drop     |-> IF sc.drop_all_capabilities THEN {"ALL"} ELSE {},
     tmpfs        |-> {"/tmp", "/var/tmp"}]

\* ContainerManager._get_image_for_language
_get_image_for_language(language) ==
    CASE language = "python" -> "python:3.11-slim"
      [] language = "java" -> "openjdk:17-slim"
      [] OTHER -> language

\* ContainerManager.create_container_config
create_container_config(language, volumes) ==
    [image |-> _get_image_for_language(language),
     volumes |-> volumes,
     security_config |-> SecurityConfig]

\* ContainerConfig.to_dict: the keyword arguments of client.containers.create
ContainerConfig_to_dict(config) ==
    LET sec == SecurityConfig_to_dict(config.security_config)
    IN [image |-> config.image, volumes |-> config.volumes,
        read_only |-> sec.read_only, network_mode |-> sec.network_mode,
        cap_drop |-> sec.cap_drop, tmpfs |-> sec.tmpfs]

\* ----------------------------------------------------- ContainerManager
\* the wrappers the calls in progress hold in their local variable
Locals == {loc[t] : t \in Threads}

\* a call has done its work and is about to leave `with self._lock` with the
\* result r
Leave(t, r) ==
    /\ pc' = [pc EXCEPT ![t] = "exit"]
    /\ loc' = [loc EXCEPT ![t] = r.val]
    /\ arg' = [arg EXCEPT ![t] = NoLang]
    /\ ret' = [ret EXCEPT ![t] = r]
    /\ lock_owner' = t

\* the end of `with self._lock`: the lock is released, the caller has the result
Release(t) ==
    /\ pc[t] = "exit"
    /\ pc' = [pc EXCEPT ![t] = "idle"]
    /\ ret' = [ret EXCEPT ![t] = NoResult]
    /\ lock_owner' = None
    /\ loc' = [loc EXCEPT ![t] = None]
    /\ wrappers' = Live(wrappers, pool_keys, Locals')
    /\ UNCHANGED <<now, pool_keys, language_pools, runtime, next_id, cleanup_task,
                   arg, scope, held>>
    /\ runtime_calls' = {}
    /\ container_config' = NoConfig
    /\ UNCHANGED <<fileVars, tasks, idle_timeout, container_ids, pool_pass>>

\* get_container_for_language up to the return of get_available_container:
\* the manager lock is taken, the lookup runs under the pool lock
Lookup(t, language) ==
    /\ pc[t] = "idle"
    /\ lock_owner = None
    /\ \E r \in get_available_container(language, pool_keys, language_pools, wrappers, now) :
          loc' = [loc EXCEPT ![t] = r]
    /\ lock_owner' = t
    /\ pc' = [pc EXCEPT ![t] = "get_mark"]
    /\ arg' = [arg EXCEPT ![t] = language]
    /\ UNCHANGED <<now, poolVars, cleanup_task, held, ret>>
    /\ UNCHANGED <<fileVars, tasks, idle_timeout, opVars>>

\* ContainerManager.get_container_for_language, called directly
GetContainerForLanguage(t, language) ==
    /\ scope[t] = "none"
    /\ Lookup(t, language)
    /\ UNCHANGED scope

\* ContainerManager.get_container: the scope is entered, its first call is
\* get_container_for_language
ScopeEnter(t, language) ==
    /\ scope[t] = "none"
    /\ Lookup(t, language)
    /\ scope' = [scope EXCEPT ![t] = "acquire"]

\* the phase of a scope whose lookup found nothing: the language it is about
\* to call create_and_start_container with
ScopeLanguage(t) == IF scope[t] = "acquire" /\ loc[t] = None THEN arg[t] ELSE NoLang

\* get_container_for_language from the lookup's return to its own return
GetMark(t) ==
    /\ pc[t] = "get_mark"
    /\ LET c == loc[t]
           h == IF c # None THEN [wrappers EXCEPT ![c] = mark_in_use(@, TRUE, now)]
                ELSE wrappers
       IN /\ Leave(t, Result("get", c, "none"))
          /\ wrappers' = Live(h, pool_keys, Locals')
          /\ scope' = [scope EXCEPT ![t] =
                          IF @ = "acquire" THEN (IF c # None THEN "body" ELSE ScopeLanguage(t))
                          ELSE @]
          /\ held' = [held EXCEPT ![t] = IF scope[t] = "acquire" THEN c ELSE @]
    /\ UNCHANGED <<now, pool_keys, language_pools, runtime, next_id, cleanup_task>>
    /\ UNCHANGED <<fileVars, tasks, idle_timeout, opVars>>

\* a size check that never cleans the pool
make_room_NoCleanup(keys, lp, h, t) == [keys |-> keys, lp |-> lp]

\* the first pool-size check of create_and_start_container: a full pool is
\* cleaned of its idle containers
make_room(keys, lp, h, t) ==
    IF Len(keys) >= max_pool_size
    THEN cleanup_idle_containers(keys, lp, h, t)
    ELSE [keys |-> keys, lp |-> lp]

\* a create that never looks at the size of the pool
CreateBegin_NoSizeCheck(t, language) ==
    /\ pc[t] = "idle"
    /\ lock_owner = None
    /\ next_id <= MaxIds
    /\ scope[t] \in {"none", language}
    /\ pc' = [pc EXCEPT ![t] = "create_run"]
    /\ lock_owner' = t
    /\ arg' = [arg EXCEPT ![t] = language]
    /\ UNCHANGED <<now, poolVars, cleanup_task, loc, ret, scope, held>>
    /\ UNCHANGED <<fileVars, tasks, idle_timeout, opVars>>

\* create_and_start_container up to the second pool-size check
CreateBegin(t, language) ==
    /\ pc[t] = "idle"
    /\ lock_owner = None
    /\ next_id <= MaxIds
    /\ scope[t] \in {"none", language}
    /\ LET p == make_room(pool_keys, language_pools, wrappers, now)
       IN /\ pool_keys' = p.keys
          /\ language_pools' = p.lp
          /\ wrappers' = Live(wrappers, p.keys, Locals)
          /\ IF Len(p.keys) >= max_pool_size
             THEN /\ Leave(t, Result("create", None, "PoolExhausted"))
                  /\ scope' = [scope EXCEPT ![t] = "none"]
             ELSE /\ pc' = [pc EXCEPT ![t] = "create_run"]
                  /\ lock_owner' = t
                  /\ arg' = [arg EXCEPT ![t] = language]
                  /\ UNCHANGED <<loc, ret, scope>>
    /\ UNCHANGED <<now, runtime, next_id, cleanup_task, held>>
    /\ UNCHANGED <<fileVars, tasks, idle_timeout, opVars>>

CreateOutcomes == {"ok", "ImageNotFound", "CreationFailed", "StartFailed"}

\* a create that registers the container before it starts it
CreateFinish_TracksBeforeStart(t, out, volumes) ==
    /\ pc[t] = "create_run"
    /\ container_config' = ContainerConfig_to_dict(create_container_config(arg[t], volumes))
    /\ IF out \in {"ok", "StartFailed"}
       THEN LET c == next_id
                p == add_container(c, ContainerWrapper(now, "running", FALSE, arg[t]),
                                   pool_keys, language_pools, wrappers)
            IN /\ pool_keys' = p.keys
               /\ language_pools' = p.lp
               /\ wrappers' = p.h
               /\ runtime' = runtime \cup {c}
               /\ next_id' = next_id + 1
               /\ Leave(t, Result("create", IF out = "ok" THEN c ELSE None,
                                  IF out = "ok" THEN "none" ELSE out))
               /\ scope' = [scope EXCEPT ![t] = IF @ = "none" THEN @
                                                ELSE IF out = "ok" THEN "body" ELSE "none"]
               /\ held' = [held EXCEPT ![t] = IF scope[t] = "none" \/ out # "ok"
                                              THEN @ ELSE c]
       ELSE /\ UNCHANGED <<runtime, next_id>>
            /\ Leave(t, Result("create", None, out))
            /\ scope' = [scope EXCEPT ![t] = "none"]
            /\ UNCHANGED <<wrappers, pool_keys, language_pools, held>>
    /\ UNCHANGED <<now, cleanup_task>>
    /\ UNCHANGED <<fileVars, tasks, idle_timeout, runtime_calls, container_ids, pool_pass>>

\* create_and_start_container from _create_container to its return
CreateFinish(t, out, volumes) ==
    /\ pc[t] = "create_run"
    /\ container_config' = ContainerConfig_to_dict(create_container_config(arg[t], volumes))
    /\ IF out = "ok"
       THEN LET c == next_id
                p == add_container(c, ContainerWrapper(now, "running", FALSE, arg[t]),
                                   pool_keys, language_pools, wrappers)
            IN /\ pool_keys' = p.keys
               /\ language_pools' = p.lp
               /\ wrappers' = p.h
               /\ runtime' = runtime \cup {c}
               /\ next_id' = next_id + 1
               /\ Leave(t, Result("create", c, "none"))
               /\ scope' = [scope EXCEPT ![t] = IF @ = "none" THEN @ ELSE "body"]
               /\ held' = [held EXCEPT ![t] = IF scope[t] = "none" THEN @ ELSE c]
       ELSE /\ IF out = "StartFailed"
               THEN runtime' = runtime \cup {next_id} /\ next_id' = next_id + 1
               ELSE UNCHANGED <<runtime, next_id>>
            /\ Leave(t, Result("create", None, out))
            /\ scope' = [scope EXCEPT ![t] = "none"]
            /\ UNCHANGED <<wrappers, pool_keys, language_pools, held>>
    /\ UNCHANGED <<now, cleanup_task>>
    /\ UNCHANGED <<fileVars, tasks, idle_timeout, runtime_calls, container_ids, pool_pass>>

\* execute_in_container up to the call of _execute_command
ExecBegin(t, c) ==
    /\ pc[t] = "idle"
    /\ lock_owner = None
    /\ scope[t] \in {"none", "body"}
    /\ IF c \notin Tracked
       THEN /\ Leave(t, Result("exec", c, "NotFound"))
            /\ UNCHANGED wrappers
       ELSE /\ wrappers' = [wrappers EXCEPT ![c] =
                               IF ~@.in_use THEN mark_in_use(@, TRUE, now) ELSE @]
            /\ pc' = [pc EXCEPT ![t] = "exec_run"]
            /\ loc' = [loc EXCEPT ![t] = c]
            /\ lock_owner' = t
            /\ UNCHANGED <<arg, ret>>
    /\ UNCHANGED <<now, pool_keys, language_pools, runtime, next_id, cleanup_task,
                   scope, held>>
    /\ UNCHANGED <<fileVars, tasks, idle_timeout, opVars>>

\* a cleanup that runs only after a command that succeeded
exec_try_finally_OnSuccessOnly(w, res, t) ==
    IF res = "none" THEN mark_in_use(update_last_used(w, t), FALSE, t) ELSE w

\* the try/finally of execute_in_container: the wrapper after a command that
\* ended with res
exec_try_finally(w, res, t) ==
    mark_in_use(IF res = "none" THEN update_last_used(w, t) ELSE w, FALSE, t)

\* execute_in_container from the return of the runtime's exec to its own
ExecEnd(t, out) ==
    /\ pc[t] = "exec_run"
    /\ LET c == loc[t]
           res == _execute_command(out)
           h == [wrappers EXCEPT ![c] = exec_try_finally(@, res, now)]
       IN /\ Leave(t, Result("exec", c, res))
          /\ wrappers' = Live(h, pool_keys, Locals')
    /\ UNCHANGED <<now, pool_keys, language_pools, runtime, next_id, cleanup_task,
                   scope, held>>
    /\ UNCHANGED <<fileVars, tasks, idle_timeout, opVars>>

\* the body of return_container_to_pool
ReturnBody(c) ==
    IF c \in Tracked
    THEN [wrappers EXCEPT ![c] = update_last_used(mark_in_use(@, FALSE, now), now)]
    ELSE wrappers

\* ContainerManager.return_container_to_pool, called directly
ReturnContainerToPool(t, c) ==
    /\ pc[t] = "idle"
    /\ lock_owner = None
    /\ scope[t] = "none"
    /\ wrappers' = ReturnBody(c)
    /\ Leave(t, Result("return", c, "none"))
    /\ UNCHANGED <<now, pool_keys, language_pools, runtime, next_id, cleanup_task,
                   scope, held>>
    /\ UNCHANGED <<fileVars, tasks, idle_timeout, opVars>>

\* a scope that returns its container except when it is cancelled
get_container_finally_NotOnCancel(kind, c) ==
    IF c # None /\ kind # "cancelled" THEN ReturnBody(c) ELSE wrappers

\* the finally clause of get_container, for a scope left the way `kind` says
get_container_finally(kind, c) ==
    IF c # None THEN ReturnBody(c) ELSE wrappers

\* ContainerManager.get_container: the scope is left, the finally clause runs
ScopeExit(t, kind) ==
    /\ pc[t] = "idle"
    /\ lock_owner = None
    /\ scope[t] = "body"
    /\ wrappers' = get_container_finally(kind, held[t])
    /\ scope' = [scope EXCEPT ![t] = "none"]
    /\ held' = [held EXCEPT ![t] = None]
    /\ Leave(t, Result("scope", held[t], kind))
    /\ UNCHANGED <<now, pool_keys, language_pools, runtime, next_id, cleanup_task>>
    /\ UNCHANGED <<fileVars, tasks, idle_timeout, opVars>>

StopOutcomes == {"skipped", "ok", "APIError", "Exception"}
RemoveOutcomes == {"ok", "APIError", "Exception"}

\* a teardown that lets an error of the runtime's remove reach the caller
teardown_Propagates(stop, rm) ==
    [calls |-> (IF stop # "skipped" THEN {"stop"} ELSE {}) \cup
               (IF stop # "Exception" THEN {"remove"} ELSE {}),
     gone  |-> stop # "Exception" /\ rm = "ok",
     err   |-> IF stop # "Exception" /\ rm = "Exception" THEN "Exception" ELSE "none"]

\* the try block of remove_container for a wrapper the pool held: the calls
\* made to the runtime, whether the container is gone from the runtime, and
\* the error that leaves the block.  stop = "skipped": the container's status
\* was not "running"; "Exception": an error other than APIError
teardown(stop, rm) ==
    [calls |-> (IF stop # "skipped" THEN {"stop"} ELSE {}) \cup
               (IF stop # "Exception" THEN {"remove"} ELSE {}),
     gone  |-> stop # "Exception" /\ rm = "ok",
     err   |-> "none"]

\* the error remove_container(c) ends with
RemoveError(c, stop, rm) ==
    IF c \in Tracked THEN teardown(stop, rm).err ELSE "none"

\* the body of ContainerManager.remove_container
RemoveBody(c, stop, rm) ==
    LET p == remove_container(c, pool_keys, language_pools, wrappers)
        td == teardown(stop, rm)
    IN /\ pool_keys' = p.keys
       /\ language_pools' = p.lp
       /\ wrappers' = Live(wrappers, p.keys, Locals')
       /\ runtime' = IF c \in Tracked /\ td.gone THEN runtime \ {c} ELSE runtime
       /\ runtime_calls' = IF c \in Tracked
                           THEN runtime_calls \cup {[call |-> k, id |-> c] : k \in td.calls}
                           ELSE runtime_calls

\* ContainerManager.remove_container
RemoveContainer(t, c, stop, rm) ==
    /\ pc[t] = "idle"
    /\ lock_owner = None
    /\ scope[t] = "none"
    /\ Leave(t, Result("remove", c, RemoveError(c, stop, rm)))
    /\ RemoveBody(c, stop, rm)
    /\ UNCHANGED <<now, next_id, cleanup_task, scope, held>>
    /\ UNCHANGED <<fileVars, tasks, idle_timeout, container_ids, container_config, pool_pass>>

\* cleanup_all_containers up to its loop: the keys of the pool are copied
CleanupAllBegin(t) ==
    /\ pc[t] = "idle"
    /\ lock_owner = None
    /\ scope[t] = "none"
    /\ pc' = [pc EXCEPT ![t] = "cleanup_all"]
    /\ lock_owner' = t
    /\ container_ids' = pool_keys
    /\ UNCHANGED <<now, poolVars, cleanup_task, loc, arg, scope, held, ret>>
    /\ UNCHANGED <<fileVars, tasks, idle_timeout, runtime_calls, container_config, pool_pass>>

\* one pass of the loop of cleanup_all_containers
CleanupAllStep(t, stop, rm) ==
    /\ pc[t] = "cleanup_all"
    /\ container_ids # << >>
    /\ IF RemoveError(Head(container_ids), stop, rm) = "none"
       THEN /\ container_ids' = Tail(container_ids)
            /\ UNCHANGED <<lock_owner, threadVars>>
       ELSE /\ container_ids' = << >>
            /\ Leave(t, Result("cleanup_all", None, RemoveError(Head(container_ids), stop, rm)))
            /\ UNCHANGED <<scope, held>>
    /\ RemoveBody(Head(container_ids), stop, rm)
    /\ UNCHANGED <<now, next_id, cleanup_task, fileVars, tasks, idle_timeout, container_config, pool_pass>>

\* cleanup_all_containers after its loop
CleanupAllEnd(t) ==
    /\ pc[t] = "cleanup_all"
    /\ container_ids = << >>
    /\ Leave(t, Result("cleanup_all", None, "none"))
    /\ UNCHANGED <<now, poolVars, cleanup_task, scope, held>>
    /\ UNCHANGED <<fileVars, tasks, idle_timeout, opVars>>

\* ------------------------------------------------ the pool's cleanup task
\* a start that creates a task whatever the handle holds
start_cleanup_task_NoGuard(task, live) ==
    [task |-> "running", live |-> live + 1]

\* start_cleanup_task (the same text in ContainerPool and in
\* TemporaryFileManager) on the handle _cleanup_task and the number of tasks
\* of the object that have not finished: a handle is "none" (None), "running",
\* "cancelling" (cancel() called, CancelledError not yet delivered) or "done"
start_cleanup_task(task, live) ==
    IF task \in {"none", "done"}
    THEN [task |-> "running", live |-> live + 1]
    ELSE [task |-> task, live |-> live]

\* stop_cleanup_task (the same text in both classes): cancel() on a task that
\* is not done
stop_cleanup_task(task) ==
    IF task \in {"running", "cancelling"} THEN "cancelling" ELSE task

\* ContainerPool.start_cleanup_task
StartCleanupTask ==
    /\ LET r == start_cleanup_task(cleanup_task, tasks.pool)
       IN /\ cleanup_task' = r.task
          /\ tasks' = [tasks EXCEPT !.pool = r.live]
    /\ UNCHANGED <<now, poolVars, lock_owner, threadVars>>
    /\ UNCHANGED <<fileVars, idle_timeout, opVars>>

\* ContainerPool.stop_cleanup_task
StopCleanupTask ==
    /\ cleanup_task' = stop_cleanup_task(cleanup_task)
    /\ UNCHANGED <<now, poolVars, lock_owner, threadVars>>
    /\ UNCHANGED <<fileVars, tasks, idle_timeout, opVars>>

\* _periodic_cleanup: one pass of the loop after its sleep
PeriodicCleanup ==
    /\ cleanup_task = "running"
    /\ LET p == cleanup_idle_containers(pool_keys, language_pools, wrappers, now)
       IN /\ pool_keys' = p.keys
          /\ language_pools' = p.lp
          /\ wrappers' = Live(wrappers, p.keys, Locals)
    /\ UNCHANGED <<now, runtime, next_id, lock_owner, cleanup_task, threadVars>>
    /\ UNCHANGED <<fileVars, tasks, idle_timeout, opVars>>

\* _periodic_cleanup: CancelledError arrives at the sleep, the loop breaks
CleanupCancelled ==
    /\ cleanup_task = "cancelling"
    /\ cleanup_task' = "done"
    /\ tasks' = [tasks EXCEPT !.pool = @ - 1]
    /\ UNCHANGED <<now, poolVars, lock_owner, threadVars>>
    /\ UNCHANGED <<fileVars, idle_timeout, opVars>>

\* ContainerPool.add_container called with a descriptor the caller built
PoolAdd(status, in_use, language) ==
    /\ next_id <= MaxIds
    /\ LET c == next_id
           p == add_container(c, ContainerWrapper(now, status, in_use, language),
                              pool_keys, language_pools, wrappers)
       IN /\ pool_keys' = p.keys
          /\ language_pools' = p.lp
          /\ wrappers' = p.h
          /\ runtime' = runtime \cup {c}
          /\ next_id' = next_id + 1
    /\ UNCHANGED <<now, lock_owner, cleanup_task, threadVars>>
    /\ UNCHANGED <<fileVars, tasks, idle_timeout, opVars>>

\* the clock advances
Tick ==
    /\ now < MaxTime
    /\ now' = now + 1
    /\ UNCHANGED <<poolVars, lock_owner, cleanup_task, threadVars>>
    /\ UNCHANGED <<fileVars, tasks, idle_timeout, opVars>>


\* a caller thread using the manager's operations one by one
ManagerCall(t) ==
    \/ \E l \in Langs : GetContainerForLanguage(t, l)
    \/ GetMark(t)
    \/ Release(t)
    \/ \E l \in Langs : CreateBegin(t, l)
    \/ \E o \in CreateOutcomes, v \in VolumeInputs : CreateFinish(t, o, v)
    \/ \E c \in Ids : ExecBegin(t, c)
    \/ \E o \in ExecOutcomes : ExecEnd(t, o)
    \/ \E c \in Ids : ReturnContainerToPool(t, c)
    \/ \E c \in Ids, s \in StopOutcomes, r \in RemoveOutcomes : RemoveContainer(t, c, s, r)
    \/ CleanupAllBegin(t)
    \/ \E s \in StopOutcomes, r \in RemoveOutcomes : CleanupAllStep(t, s, r)
    \/ CleanupAllEnd(t)

CleanupTask ==
    \/ StartCleanupTask
    \/ StopCleanupTask
    \/ PeriodicCleanup
    \/ CleanupCancelled

Next ==
    \/ \E t \in Threads : ManagerCall(t)
    \/ CleanupTask
    \/ Tick

Spec == Init /\ [][Next]_vars

\* one caller that also registers descriptors it built itself, in any status
RegCall(t) ==
    \/ \E l \in Langs : GetContainerForLanguage(t, l)
    \/ GetMark(t)
    \/ Release(t)
    \/ \E c \in Ids : ExecBegin(t, c)
    \/ \E o \in ExecOutcomes : ExecEnd(t, o)
    \/ \E c \in Ids : ReturnContainerToPool(t, c)

NextReg ==
    \/ \E s \in StatusInputs, i \in BOOLEAN, l \in Langs : PoolAdd(s, i, l)
    \/ RegCall(1)
    \/ StartCleanupTask
    \/ PeriodicCleanup
    \/ Tick

SpecReg == Init /\ [][NextReg]_vars

\* a caller thread using `async with manager.get_container(language)`, running
\* commands in the body of the scope
ScopedCall(t) ==
    \/ \E l \in Langs : ScopeEnter(t, l)
    \/ GetMark(t)
    \/ Release(t)
    \/ scope[t] \in Langs /\ CreateBegin(t, scope[t])
    \/ \E o \in CreateOutcomes, v \in VolumeInputs : CreateFinish(t, o, v)
    \/ \E c \in Ids : scope[t] = "body" /\ ExecBegin(t, c)
    \/ \E o \in ExecOutcomes : ExecEnd(t, o)
    \/ \E k \in ExitKinds : ScopeExit(t, k)
    \/ \E c \in Ids, s \in StopOutcomes, r \in RemoveOutcomes : RemoveContainer(t, c, s, r)

NextScope ==
    \/ \E t \in Threads : ScopedCall(t)
    \/ StartCleanupTask
    \/ PeriodicCleanup
    \/ Tick

SpecScope == Init /\ [][NextScope]_vars

\* a caller thread that takes its container from a stocked pool: it enters the
\* scope only while some container can be handed out, so that the scope's call
\* of get_container_for_language returns a container and none is created
OwnerCall(t) ==
    \/ \E l \in Langs :
          /\ FirstEligible(pool_keys, wrappers, now) # None
          /\ ScopeEnter(t, l)
    \/ GetMark(t)
    \/ Release(t)
    \/ scope[t] = "body" /\ ExecBegin(t, held[t])
    \/ \E o \in ExecOutcomes : ExecEnd(t, o)
    \/ \E k \in ExitKinds : ScopeExit(t, k)

NextOwn ==
    \/ \E l \in Langs : PoolAdd("running", FALSE, l)
    \/ \E t \in Threads : OwnerCall(t)
    \/ Tick

SpecOwn == Init /\ [][NextOwn]_vars

\* ------------------------- a cleanup pass seen from the manager's threads
\* cleanup_idle_containers, first loop: under the pool's lock the pass collects
\* the containers that are not in use and idle for too long
CleanupScan ==
    /\ cleanup_task = "running"
    /\ ~pool_pass.scanned
    /\ pool_pass' = [scanned |-> TRUE,
                     ids |-> containers_to_remove(pool_keys, wrappers, now)]
    /\ UNCHANGED <<now, poolVars, lock_owner, cleanup_task, threadVars>>
    /\ UNCHANGED <<fileVars, tasks, idle_timeout, runtime_calls, container_ids,
                   container_config>>

\* cleanup_idle_containers, second loop: the containers collected are removed
\* from the pool, whatever has become of their wrappers since
CleanupRemove ==
    /\ pool_pass.scanned
    /\ LET p == RemoveEach(pool_pass.ids, pool_keys, language_pools, wrappers)
       IN /\ pool_keys' = p.keys
          /\ language_pools' = p.lp
          /\ wrappers' = Live(wrappers, p.keys, Locals)
    /\ pool_pass' = NoPass
    /\ UNCHANGED <<now, runtime, next_id, lock_owner, cleanup_task, threadVars>>
    /\ UNCHANGED <<fileVars, tasks, idle_timeout, runtime_calls, container_ids,
                   container_config>>

\* a caller thread of the manager while cleanup passes run in the task: the
\* calls that take the pool's lock (lookup, add, the cleanup of a full pool)
\* wait for a pass to end; mark_in_use, update_last_used and the reads of
\* _pool._pool made under the manager's lock alone do not
RaceCall(t) ==
    \/ \E l \in Langs : ~pool_pass.scanned /\ GetContainerForLanguage(t, l)
    \/ GetMark(t)
    \/ Release(t)
    \/ \E l \in Langs : ~pool_pass.scanned /\ CreateBegin(t, l)
    \/ ~pool_pass.scanned /\ CreateFinish(t, "ok", {})
    \/ \E c \in Ids : ExecBegin(t, c)
    \/ \E o \in ExecOutcomes : ExecEnd(t, o)
    \/ \E c \in Ids : ReturnContainerToPool(t, c)

NextRace ==
    \/ \E t \in Threads : RaceCall(t)
    \/ StartCleanupTask
    \/ CleanupScan
    \/ CleanupRemove
    \/ Tick

SpecRace == Init /\ [][NextRace]_vars

\* ContainerPool.add_container called with a descriptor built for any
\* container id, tracked or not
PoolAddContainer(c, status, in_use, language) ==
    /\ LET p == add_container(c, ContainerWrapper(now, status, in_use, language),
                              pool_keys, language_pools, wrappers)
       IN /\ pool_keys' = p.keys
          /\ language_pools' = p.lp
          /\ wrappers' = p.h
    /\ runtime' = runtime \cup {c}
    /\ UNCHANGED <<now, next_id, lock_owner, cleanup_task, threadVars>>
    /\ UNCHANGED <<fileVars, tasks, idle_timeout, opVars>>

\* ContainerPool.remove_container called directly
PoolRemoveContainer(c) ==
    /\ LET p == remove_container(c, pool_keys, language_pools, wrappers)
       IN /\ pool_keys' = p.keys
          /\ language_pools' = p.lp
          /\ wrappers' = Live(wrappers, p.keys, Locals)
    /\ UNCHANGED <<now, runtime, next_id, lock_owner, cleanup_task, threadVars>>
    /\ UNCHANGED <<fileVars, tasks, idle_timeout, opVars>>

\* ContainerPool.cleanup_idle_containers called directly
PoolCleanupIdle ==
    /\ LET p == cleanup_idle_containers(pool_keys, language_pools, wrappers, now)
       IN /\ pool_keys' = p.keys
          /\ language_pools' = p.lp
          /\ wrappers' = Live(wrappers, p.keys, Locals)
    /\ UNCHANGED <<now, runtime, next_id, lock_owner, cleanup_task, threadVars>>
    /\ UNCHANGED <<fileVars, tasks, idle_timeout, opVars>>

\* the idle timeouts a pool is constructed with
TimeoutInputs == {1, 2}

\* a ContainerPool used on its own, through its public operations
InitPool == \E timeout \in TimeoutInputs : Construct(timeout, "/app")

\* the ids of the containers it is used with: as many as the pool is sized for
PoolIds == 1..max_pool_size

NextPool ==
    \/ \E c \in PoolIds, s \in StatusInputs, i \in BOOLEAN, l \in Langs :
           PoolAddContainer(c, s, i, l)
    \/ \E c \in PoolIds : PoolRemoveContainer(c)
    \/ PoolCleanupIdle
    \/ Tick

SpecPool == InitPool /\ [][NextPool]_vars

\* ----------------------------------------------------------- strings
\* str.startswith
startswith(s, prefix) ==
    Len(prefix) <= Len(s) /\ SubSeq(s, 1, Len(prefix)) = prefix

\* the operator `in` on two strings
contains(s, sub) ==
    \E i \in 1..(Len(s) - Len(sub) + 1) : SubSeq(s, i, i + Len(sub) - 1) = sub

\* str.split("/"): the text before the first "/", then the split of the rest
RECURSIVE Segments(_)
Segments(s) ==
    IF ~contains(s, "/") THEN <<s>>
    ELSE LET i == CHOOSE k \in 1..Len(s) :
                     /\ SubSeq(s, k, k) = "/"
                     /\ \A j \in 1..(k - 1) : SubSeq(s, j, j) # "/"
         IN <<SubSeq(s, 1, i - 1)>> \o Segments(SubSeq(s, i + 1, Len(s)))

\* the directory stack after walking the segments: "" and "." are skipped,
\* ".." leaves the last directory (the root has no parent)
RECURSIVE Walk(_, _)
Walk(stack, segs) ==
    IF segs = << >> THEN stack
    ELSE LET x == Head(segs)
         IN Walk(IF x = "" \/ x = "." THEN stack
                 ELSE IF x = ".."
                      THEN (IF stack = << >> THEN stack
                            ELSE SubSeq(stack, 1, Len(stack) - 1))
                      ELSE Append(stack, x),
                 Tail(segs))

RECURSIVE Join(_)
Join(segs) == IF segs = << >> THEN "" ELSE "/" \o Head(segs) \o Join(Tail(segs))

\* Path(path).resolve() in a process whose working directory is dir, on a
\* file system without symbolic links
resolve(path, dir) ==
    LET abs == IF startswith(path, "/") THEN path ELSE dir \o "/" \o path
        stack == Walk(<< >>, Segments(abs))
    IN IF stack = << >> THEN "/" ELSE Join(stack)

\* the index of the last "/" of p, 0 when it has none
RECURSIVE LastSlash(_, _)
LastSlash(p, i) ==
    IF i = 0 THEN 0
    ELSE IF SubSeq(p, i, i) = "/" THEN i ELSE LastSlash(p, i - 1)

\* str.rstrip("/")
RECURSIVE RStripSlash(_)
RStripSlash(p) ==
    IF p # "" /\ SubSeq(p, Len(p), Len(p)) = "/"
    THEN RStripSlash(SubSeq(p, 1, Len(p) - 1)) ELSE p

\* os.path.dirname
dirname(p) ==
    LET head == SubSeq(p, 1, LastSlash(p, Len(p)))
    IN IF RStripSlash(head) # "" THEN RStripSlash(head) ELSE head

\* the index of the last "." of name, 0 when it has none
RECURSIVE LastDot(_, _)
LastDot(name, i) ==
    IF i = 0 THEN 0
    ELSE IF SubSeq(name, i, i) = "." THEN i ELSE LastDot(name, i - 1)

\* PurePath.name: the last component of a path
basename(p) == SubSeq(p, LastSlash(p, Len(p)) + 1, Len(p))

\* PurePath.suffix
suffix(filename) ==
    LET name == basename(filename)
        i == LastDot(name, Len(name))
    IN IF 1 < i /\ i < Len(name) THEN SubSeq(name, i, Len(name)) ELSE ""

\* PurePath.stem
stem(filename) ==
    LET name == basename(filename)
        i == LastDot(name, Len(name))
    IN IF 1 < i /\ i < Len(name) THEN SubSeq(name, 1, i - 1) ELSE name

UpperCase == "ABCDEFGHIJKLMNOPQRSTUVWXYZ"
LowerCase == "abcdefghijklmnopqrstuvwxyz"

\* the character ch, replaced by its counterpart when it is a letter of from
Translate(ch, from, to) ==
    IF \E i \in 1..Len(from) : SubSeq(from, i, i) = ch
    THEN LET i == CHOOSE k \in 1..Len(from) : SubSeq(from, k, k) = ch
         IN SubSeq(to, i, i)
    ELSE ch

\* str.lower
RECURSIVE lower(_)
lower(s) == IF s = "" THEN "" ELSE Translate(Head(s), UpperCase, LowerCase) \o lower(Tail(s))

\* str.upper
RECURSIVE upper(_)
upper(s) == IF s = "" THEN "" ELSE Translate(Head(s), LowerCase, UpperCase) \o upper(Tail(s))

\* ---------------------------------------------------- SecurePathValidator
blocked_paths == {"/etc", "/usr", "/bin", "/sbin", "/boot", "/dev", "/proc", "/sys"}

\* SecurePathValidator.validate_path: the error it raises, or the path it
\* returns
validate_path(path, dir) ==
    LET path_obj == resolve(path, dir)
    IN IF \E blocked \in blocked_paths : startswith(path_obj, blocked)
       THEN [err |-> "PathValidationError", path |-> path_obj]
       ELSE IF contains(path_obj, "..")
       THEN [err |-> "PathValidationError", path |-> path_obj]
       ELSE [err |-> "none", path |-> path_obj]

dangerous_chars == {"<", ">", ":", "\"", "|", "?", "*"}
reserved_names ==
    {"CON", "PRN", "AUX", "NUL",
     "COM1", "COM2", "COM3", "COM4", "COM5", "COM6", "COM7", "COM8", "COM9",
     "LPT1", "LPT2", "LPT3", "LPT4", "LPT5", "LPT6", "LPT7", "LPT8", "LPT9"}

\* SecurePathValidator.is_safe_filename
is_safe_filename(filename) ==
    /\ ~\E char \in dangerous_chars : contains(filename, char)
    /\ upper(stem(filename)) \notin reserved_names

\* the directories the process is started in
CwdInputs == {"/", "/app", "/home/user/project", "/etc/nginx", "/tmp/work"}

\* the paths given to validate_path: absolute, under /tmp or relative, with
\* up to three leading ".." segments, ending in a deny-listed location, in a
\* location whose name only begins like a deny-listed one, in a file whose
\* name holds two dots, or in a plain file
ValidateInputs ==
    {prefix \o ups \o tail :
        prefix \in {"", "/", "/tmp/"},
        ups \in {"", "../", "../../", "../../../"},
        tail \in {"etc/passwd", "usr/bin", "etc", "etcetera/x", "tmp/ok/file.txt",
                  "a..b", "test.txt"}}

\* a caller of SecurePathValidator.validate_path
ValidatePath(path) ==
    /\ LET r == validate_path(path, cwd)
       IN fret' = Result("validate_path", r.path, r.err)
    /\ UNCHANGED <<cwd, host_files, host_dirs, archives, temp_files, next_file_id>>
    /\ UNCHANGED <<containerVars, context_file_id, file_cleanup_task, tasks>>

\* a process started in any of the directories
InitPaths == \E dir \in CwdInputs : Construct(1, dir)

NextPaths == \E path \in ValidateInputs : ValidatePath(path)

SpecPaths == InitPaths /\ [][NextPaths]_vars

\* ----------------------------------------------------- DockerFileTransfer
\* the paths callers pass, for the host side and for the container side
PathInputs == {"/tmp/a.py", "/etc/passwd", "/workspace/out.txt"}
ModeInputs == {"ro", "rw"}
ArchiveOutcomes == {"ok", "APIError"}

\* the files of the container, content by absolute path
ContainerFiles == [p \in {"/workspace/out.txt", "/etc/passwd"} |->
                      IF p = "/etc/passwd" THEN "root" ELSE "result"]

\* DockerFileTransfer.copy_to_container; put is what the runtime's put_archive
\* does
CopyToContainer(source_path, dest_path, put) ==
    /\ LET source == resolve(source_path, cwd)
           err == IF source \notin DOMAIN host_files THEN "FileTransferError"
                  ELSE IF validate_path(dest_path, cwd).err # "none" THEN "FileTransferError"
                  ELSE IF put # "ok" THEN "FileTransferError"
                  ELSE "none"
       IN /\ fret' = Result("copy_to_container", None, err)
          /\ archives' =
                IF err = "none"
                THEN [d \in DOMAIN archives \cup {dirname(dest_path)} |->
                         IF d = dirname(dest_path) THEN host_files[source] ELSE archives[d]]
                ELSE archives
    /\ UNCHANGED <<cwd, host_files, host_dirs, temp_files, next_file_id>>
    /\ UNCHANGED <<containerVars, context_file_id, file_cleanup_task, tasks>>

\* DockerFileTransfer.copy_from_container; get is what the runtime's
\* get_archive does
CopyFromContainer(source_path, dest_path, get) ==
    /\ LET dest == resolve(dest_path, cwd)
           source == resolve(source_path, "/")
           rejected == validate_path(source_path, cwd).err # "none"
           found == source \in DOMAIN ContainerFiles /\ get = "ok"
           err == IF rejected \/ ~found THEN "FileTransferError" ELSE "none"
       IN /\ fret' = Result("copy_from_container", None, err)
          /\ host_dirs' = IF rejected THEN host_dirs
                          ELSE host_dirs \cup {resolve(dirname(dest_path), cwd)}
          /\ host_files' =
                IF err = "none"
                THEN [f \in DOMAIN host_files \cup {dest} |->
                         IF f = dest THEN ContainerFiles[source]
                         ELSE host_files[f]]
                ELSE host_files
    /\ UNCHANGED <<cwd, archives, temp_files, next_file_id>>
    /\ UNCHANGED <<containerVars, context_file_id, file_cleanup_task, tasks>>

\* DockerFileTransfer.create_volume_mount: the error it raises, or the mount
\* specification it returns
create_volume_mount(host_path, container_path, mode, dir) ==
    LET host == resolve(host_path, dir)
    IN IF \/ validate_path(host, dir).err # "none"
          \/ validate_path(container_path, dir).err # "none"
       THEN [err |-> "FileTransferError", host |-> "", bind |-> "", mode |-> ""]
       ELSE [err |-> "none", host |-> host, bind |-> container_path, mode |-> mode]

\* a caller of DockerFileTransfer.create_volume_mount
CreateVolumeMount(host_path, container_path, mode) ==
    /\ LET m == create_volume_mount(host_path, container_path, mode, cwd)
       IN fret' = Result("create_volume_mount", m, m.err)
    /\ UNCHANGED <<cwd, host_files, host_dirs, archives, temp_files, next_file_id>>
    /\ UNCHANGED <<containerVars, context_file_id, file_cleanup_task, tasks>>

\* a process that uses the transfer operations of the bridge
NextTransfer ==
    \/ \E src \in PathInputs, dst \in PathInputs, o \in ArchiveOutcomes :
           CopyToContainer(src, dst, o)
    \/ \E src \in PathInputs, dst \in PathInputs, o \in ArchiveOutcomes :
           CopyFromContainer(src, dst, o)
    \/ \E h \in PathInputs, c \in PathInputs, m \in ModeInputs :
           CreateVolumeMount(h, c, m)

SpecTransfer == Init /\ [][NextTransfer]_vars

\* ------------------------------- FileManager and TemporaryFileManager
\* FileTransferConfig of the model
max_file_size == 2
max_temp_files == 2
cleanup_interval == 1
temp_dir == "/tmp/costrict_temp"
allowed_extensions ==
    {".py", ".js", ".ts", ".java", ".c", ".cpp", ".go", ".rs", ".php", ".rb",
     ".txt", ".md", ".json", ".xml", ".yaml", ".yml"}

ContentInputs == {"ab", "abc"}
FilenameInputs == {"a.py", "A.PY", "a", "a.exe", "a<.py", "nul.py"}
WriteOutcomes == {"ok", "OSError"}

\* a validation that does not look at the size of the content
validate_file_content_NoSizeCheck(content, filename) ==
    IF suffix(filename) # "" /\ lower(suffix(filename)) \notin allowed_extensions
    THEN "FileSecurityError"
    ELSE IF ~is_safe_filename(filename) THEN "FileSecurityError"
    ELSE "none"

\* FileManager.validate_file_content: the error it raises
validate_file_content(content, filename) ==
    IF Len(content) > max_file_size THEN "FileSecurityError"
    ELSE IF suffix(filename) # "" /\ lower(suffix(filename)) \notin allowed_extensions
    THEN "FileSecurityError"
    ELSE IF ~is_safe_filename(filename) THEN "FileSecurityError"
    ELSE "none"

\* hashlib.sha256(content).hexdigest(), taken to be free of collisions
sha256(content) == <<"sha256", content>>

FileIds == 1..MaxFiles

\* a delete that removes the file and keeps its record
delete_temp_file_KeepsRecord(file_id, files, disk, unlink) ==
    IF file_id \notin DOMAIN files THEN [files |-> files, disk |-> disk, ret |-> FALSE]
    ELSE [files |-> files,
          disk  |-> IF files[file_id].path \in DOMAIN disk /\ unlink
                    THEN [q \in DOMAIN disk \ {files[file_id].path} |-> disk[q]]
                    ELSE disk,
          ret   |-> files[file_id].path \notin DOMAIN disk \/ unlink]

\* TemporaryFileManager.delete_temp_file on a store and a host file system:
\* both after the call, and the value returned; unlink tells whether the file
\* can be removed
delete_temp_file(file_id, files, disk, unlink) ==
    IF file_id \notin DOMAIN files THEN [files |-> files, disk |-> disk, ret |-> FALSE]
    ELSE [files |-> [f \in DOMAIN files \ {file_id} |-> files[f]],
          disk  |-> IF files[file_id].path \in DOMAIN disk /\ unlink
                    THEN [q \in DOMAIN disk \ {files[file_id].path} |-> disk[q]]
                    ELSE disk,
          ret   |-> files[file_id].path \notin DOMAIN disk \/ unlink]

\* the list files_to_remove of _cleanup_old_files, as a set
files_to_remove(files, t) ==
    {f \in DOMAIN files : t - files[f].created_at > cleanup_interval}

RECURSIVE DeleteEach(_, _, _, _)
DeleteEach(ids, files, disk, failing) ==
    IF ids = {} THEN [files |-> files, disk |-> disk]
    ELSE LET f == CHOOSE x \in ids : TRUE
             d == delete_temp_file(f, files, disk, f \notin failing)
         IN DeleteEach(ids \ {f}, d.files, d.disk, failing)

\* TemporaryFileManager._cleanup_old_files; failing: the ids whose file cannot
\* be removed
_cleanup_old_files(files, disk, t, failing) ==
    DeleteEach(files_to_remove(files, t), files, disk, failing)

\* a create that checks the limit without reclaiming old files first
create_temp_file_NoReclaim(content, filename, write, failing) ==
    LET file_id == next_file_id
        file_path == temp_dir \o "/" \o ToString(file_id) \o "_" \o filename
        metadata == [path |-> file_path, size |-> Len(content),
                     checksum |-> sha256(content), created_at |-> now,
                     container_id |-> None]
    IN IF Cardinality(DOMAIN temp_files) >= max_temp_files
       THEN [files |-> temp_files, disk |-> host_files, next |-> next_file_id,
             ret |-> Result("create_temp_file", None, "CapacityExceeded")]
       ELSE IF write # "ok"
       THEN [files |-> temp_files, disk |-> host_files, next |-> next_file_id + 1,
             ret |-> Result("create_temp_file", None, "FileTransferError")]
       ELSE [files |-> [f \in DOMAIN temp_files \cup {file_id} |->
                           IF f = file_id THEN metadata ELSE temp_files[f]],
             disk  |-> [q \in DOMAIN host_files \cup {file_path} |->
                           IF q = file_path THEN content ELSE host_files[q]],
             next  |-> next_file_id + 1,
             ret   |-> Result("create_temp_file", file_id, "none")]

\* TemporaryFileManager.create_temp_file: store, host files, the id counter
\* and the result after the call.  Both failures are FileTransferError in the
\* code; the one raised at the limit ("临时文件数量超过限制") is named
\* CapacityExceeded here, the one that wraps a failed write keeps the name
create_temp_file(content, filename, write, failing) ==
    LET c == IF Cardinality(DOMAIN temp_files) >= max_temp_files
             THEN _cleanup_old_files(temp_files, host_files, now, failing)
             ELSE [files |-> temp_files, disk |-> host_files]
        file_id == next_file_id
        file_path == temp_dir \o "/" \o ToString(file_id) \o "_" \o filename
        metadata == [path |-> file_path, size |-> Len(content),
                     checksum |-> sha256(content), created_at |-> now,
                     container_id |-> None]
    IN IF Cardinality(DOMAIN c.files) >= max_temp_files
       THEN [files |-> c.files, disk |-> c.disk, next |-> next_file_id,
             ret |-> Result("create_temp_file", None, "CapacityExceeded")]
       ELSE IF write # "ok"
       THEN [files |-> c.files, disk |-> c.disk, next |-> next_file_id + 1,
             ret |-> Result("create_temp_file", None, "FileTransferError")]
       ELSE [files |-> [f \in DOMAIN c.files \cup {file_id} |->
                           IF f = file_id THEN metadata ELSE c.files[f]],
             disk  |-> [q \in DOMAIN c.disk \cup {file_path} |->
                           IF q = file_path THEN content ELSE c.disk[q]],
             next  |-> next_file_id + 1,
             ret   |-> Result("create_temp_file", file_id, "none")]

\* FileManager.create_secure_temp_file: store, host files, the id counter and
\* the result after the call
create_secure_temp_file(content, filename, write, failing) ==
    LET err == validate_file_content(content, filename)
        r == create_temp_file(content, filename, write, failing)
    IN IF err # "none"
       THEN [files |-> temp_files, disk |-> host_files, next |-> next_file_id,
             ret |-> Result("create_secure_temp_file", None, err)]
       ELSE [files |-> r.files, disk |-> r.disk, next |-> r.next,
             ret |-> Result("create_secure_temp_file", r.ret.val, r.ret.err)]

\* a caller of FileManager.create_secure_temp_file
CreateSecureTempFile(content, filename, write, failing) ==
    /\ next_file_id <= MaxFiles
    /\ LET r == create_secure_temp_file(content, filename, write, failing)
       IN /\ temp_files' = r.files
          /\ host_files' = r.disk
          /\ next_file_id' = r.next
          /\ fret' = r.ret
    /\ UNCHANGED <<cwd, host_dirs, archives>>
    /\ UNCHANGED <<containerVars, context_file_id, file_cleanup_task, tasks>>

\* TemporaryFileManager.delete_temp_file, called through cleanup_temp_files
DeleteTempFile(file_id, unlink) ==
    /\ LET d == delete_temp_file(file_id, temp_files, host_files, unlink)
       IN /\ temp_files' = d.files
          /\ host_files' = d.disk
          /\ fret' = Result("delete_temp_file", file_id, IF d.ret THEN "none" ELSE "False")
    /\ UNCHANGED <<cwd, host_dirs, archives, next_file_id>>
    /\ UNCHANGED <<containerVars, context_file_id, file_cleanup_task, tasks>>

\* a process that uses the temporary files of the bridge
NextFiles ==
    \/ \E b \in ContentInputs, n \in FilenameInputs, w \in WriteOutcomes,
          failing \in SUBSET DOMAIN temp_files : CreateSecureTempFile(b, n, w, failing)
    \/ \E f \in FileIds, u \in BOOLEAN : DeleteTempFile(f, u)
    \/ Tick

SpecFiles == Init /\ [][NextFiles]_vars

\* the argument file_ids of cleanup_temp_files: no list (the default None), or
\* a list of at most two ids
FileIdLists ==
    {[given |-> FALSE, ids |-> << >>]} \cup
    {[given |-> TRUE, ids |-> l] :
        l \in {<< >>} \cup {<<f>> : f \in FileIds} \cup {<<f, g>> : f, g \in FileIds}}

\* TemporaryFileManager.cleanup_all: every record is deleted, the number of
\* records is returned
cleanup_all(files, disk, failing) ==
    LET d == DeleteEach(DOMAIN files, files, disk, failing)
    IN [files |-> d.files, disk |-> d.disk, count |-> Cardinality(DOMAIN files)]

\* the loop of cleanup_temp_files over a list: the deletes that return True
\* are counted
RECURSIVE DeleteListed(_, _, _, _)
DeleteListed(ids, files, disk, failing) ==
    IF ids = << >> THEN [files |-> files, disk |-> disk, count |-> 0]
    ELSE LET d == delete_temp_file(Head(ids), files, disk, Head(ids) \notin failing)
             r == DeleteListed(Tail(ids), d.files, d.disk, failing)
         IN [files |-> r.files, disk |-> r.disk,
             count |-> r.count + (IF d.ret THEN 1 ELSE 0)]

\* FileManager.cleanup_temp_files: `if file_ids:` is false for None and for
\* an empty list
cleanup_temp_files(file_ids, files, disk, failing) ==
    IF file_ids.given /\ file_ids.ids # << >>
    THEN DeleteListed(file_ids.ids, files, disk, failing)
    ELSE cleanup_all(files, disk, failing)

\* a caller of FileManager.cleanup_temp_files
CleanupTempFiles(file_ids, failing) ==
    /\ LET r == cleanup_temp_files(file_ids, temp_files, host_files, failing)
       IN /\ temp_files' = r.files
          /\ host_files' = r.disk
          /\ fret' = Result("cleanup_temp_files", r.count, "none")
    /\ UNCHANGED <<cwd, host_dirs, archives, next_file_id>>
    /\ UNCHANGED <<containerVars, context_file_id, file_cleanup_task, tasks>>

\* a process that creates temporary files and cleans them up, listed or all
NextCleanup ==
    \/ \E b \in ContentInputs : CreateSecureTempFile(b, "a.py", "ok", {})
    \/ \E l \in FileIdLists, failing \in SUBSET DOMAIN temp_files :
          CleanupTempFiles(l, failing)
    \/ Tick

SpecCleanup == Init /\ [][NextCleanup]_vars

\* TemporaryFileManager.get_temp_file_path; "" stands for None
get_temp_file_path(file_id, files) ==
    IF file_id \in DOMAIN files THEN files[file_id].path ELSE ""

\* FileManager.get_file_checksum: the digest of the bytes read from the file
get_file_checksum(file_path, disk) ==
    IF file_path \notin DOMAIN disk
    THEN [err |-> "FileTransferError", val |-> sha256("")]
    ELSE [err |-> "none", val |-> sha256(disk[file_path])]

\* FileManager.verify_file_integrity: the value it returns or the error it
\* raises
verify_file_integrity(file_id, expected_checksum, files, disk) ==
    LET file_path == get_temp_file_path(file_id, files)
        actual_checksum == get_file_checksum(file_path, disk)
    IN IF file_path = "" THEN [err |-> "none", val |-> FALSE]
       ELSE IF actual_checksum.err # "none" THEN [err |-> actual_checksum.err, val |-> FALSE]
       ELSE [err |-> "none", val |-> actual_checksum.val = expected_checksum]

\* the digests callers compare with: those of the contents and a foreign one
ChecksumInputs == {sha256(b) : b \in ContentInputs \cup {"zz"}}

\* a caller of FileManager.verify_file_integrity
VerifyFileIntegrity(file_id, expected_checksum) ==
    /\ LET r == verify_file_integrity(file_id, expected_checksum, temp_files, host_files)
       IN fret' = Result("verify_file_integrity", r.val, r.err)
    /\ UNCHANGED <<cwd, host_files, host_dirs, archives, temp_files, next_file_id>>
    /\ UNCHANGED <<containerVars, context_file_id, file_cleanup_task, tasks>>

\* a process that creates, checks and deletes temporary files
NextIntegrity ==
    \/ \E f \in FileIds, d \in ChecksumInputs : VerifyFileIntegrity(f, d)
    \/ NextFiles

SpecIntegrity == Init /\ [][NextIntegrity]_vars

\* the container_base_path arguments of setup_file_mounts: the default, and a
\* directory of the container that the validator's deny-list covers
BasePathInputs == {"/workspace", "/usr/src"}

\* the mount create_volume_mount is asked for in one pass of the loop of
\* setup_file_mounts
file_mount(file_id, container_base_path, mode, files, dir) ==
    create_volume_mount(get_temp_file_path(file_id, files),
                        container_base_path \o "/" \o ToString(file_id), mode, dir)

\* a setup that asks for writable mounts
setup_file_mounts_Writable(file_ids, container_base_path, files, dir) ==
    LET found == {f \in file_ids : get_temp_file_path(f, files) # ""}
        made == {file_mount(f, container_base_path, "rw", files, dir) : f \in found}
    IN IF \E m \in made : m.err # "none"
       THEN [err |-> "FileTransferError", mounts |-> {}]
       ELSE [err |-> "none", mounts |-> made]

\* FileManager.setup_file_mounts: the error it raises or the mounts it
\* returns; file_ids is the set of the ids in its list argument
setup_file_mounts(file_ids, container_base_path, files, dir) ==
    LET found == {f \in file_ids : get_temp_file_path(f, files) # ""}
        made == {file_mount(f, container_base_path, "ro", files, dir) : f \in found}
    IN IF \E m \in made : m.err # "none"
       THEN [err |-> "FileTransferError", mounts |-> {}]
       ELSE [err |-> "none", mounts |-> made]

\* a caller of FileManager.setup_file_mounts
SetupFileMounts(file_ids, container_base_path) ==
    /\ LET r == setup_file_mounts(file_ids, container_base_path, temp_files, cwd)
       IN fret' = Result("setup_file_mounts", r.mounts, r.err)
    /\ UNCHANGED <<cwd, host_files, host_dirs, archives, temp_files, next_file_id>>
    /\ UNCHANGED <<containerVars, context_file_id, file_cleanup_task, tasks>>

\* a process that creates temporary files, mounts them and deletes them, on
\* a host whose file system does not fail
NextMounts ==
    \/ \E ids \in SUBSET FileIds, base \in BasePathInputs : SetupFileMounts(ids, base)
    \/ \E b \in ContentInputs, n \in FilenameInputs : CreateSecureTempFile(b, n, "ok", {})
    \/ \E f \in FileIds : DeleteTempFile(f, TRUE)
    \/ Tick

SpecMounts == Init /\ [][NextMounts]_vars

\* FileManager.temporary_file_context up to its yield: the file is created; a
\* create that raises leaves file_id None and the scope is never entered
TemporaryFileContextEnter(content, filename, write, failing) ==
    /\ context_file_id = None
    /\ next_file_id <= MaxFiles
    /\ LET r == create_secure_temp_file(content, filename, write, failing)
       IN /\ temp_files' = r.files
          /\ host_files' = r.disk
          /\ next_file_id' = r.next
          /\ context_file_id' = r.ret.val
          /\ fret' = Result("temporary_file_context", r.ret.val, r.ret.err)
    /\ UNCHANGED <<cwd, host_dirs, archives>>
    /\ UNCHANGED <<containerVars, file_cleanup_task, tasks>>

\* a finally clause that is skipped when the body did not end normally
temporary_file_context_finally_OnSuccessOnly(kind, id, files, disk, unlink) ==
    IF id # None /\ kind = "normal" THEN delete_temp_file(id, files, disk, unlink)
    ELSE [files |-> files, disk |-> disk, ret |-> FALSE]

\* the finally clause of temporary_file_context, for a body left the way
\* `kind` says: cleanup_temp_files([file_id])
temporary_file_context_finally(kind, id, files, disk, unlink) ==
    IF id # None THEN delete_temp_file(id, files, disk, unlink)
    ELSE [files |-> files, disk |-> disk, ret |-> FALSE]

\* FileManager.temporary_file_context: the body is left, the finally clause runs
TemporaryFileContextExit(kind, unlink) ==
    /\ context_file_id # None
    /\ LET d == temporary_file_context_finally(kind, context_file_id, temp_files, host_files, unlink)
       IN /\ temp_files' = d.files
          /\ host_files' = d.disk
    /\ context_file_id' = None
    /\ fret' = Result("temporary_file_context", context_file_id, kind)
    /\ UNCHANGED <<cwd, host_dirs, archives, next_file_id>>
    /\ UNCHANGED <<containerVars, file_cleanup_task, tasks>>

\* a process that uses temporary_file_context next to the other operations
\* on temporary files
NextFileScope ==
    \/ \E b \in ContentInputs, n \in FilenameInputs, w \in WriteOutcomes,
          failing \in SUBSET DOMAIN temp_files : TemporaryFileContextEnter(b, n, w, failing)
    \/ \E k \in ExitKinds, u \in BOOLEAN : TemporaryFileContextExit(k, u)
    \/ NextFiles

SpecFileScope == Init /\ [][NextFileScope]_vars

\* ------------------------------------------- the store's cleanup task
\* TemporaryFileManager.start_cleanup_task; the value recorded is the number
\* of lines it logs: one when it creates a task, none otherwise
FileStartCleanupTask ==
    /\ LET r == start_cleanup_task(file_cleanup_task, tasks.files)
       IN /\ file_cleanup_task' = r.task
          /\ tasks' = [tasks EXCEPT !.files = r.live]
          /\ fret' = Result("start_cleanup_task",
                            r.live - tasks.files, "none")
    /\ UNCHANGED <<cwd, host_files, host_dirs, archives, temp_files, next_file_id>>
    /\ UNCHANGED <<containerVars, context_file_id>>

\* TemporaryFileManager.stop_cleanup_task; the value recorded is the number
\* of lines it logs: one when it cancels a task, none otherwise
FileStopCleanupTask ==
    /\ file_cleanup_task' = stop_cleanup_task(file_cleanup_task)
    /\ fret' = Result("stop_cleanup_task",
                      IF file_cleanup_task \in {"running", "cancelling"}
                      THEN 1 ELSE 0, "none")
    /\ UNCHANGED <<cwd, host_files, host_dirs, archives, temp_files, next_file_id>>
    /\ UNCHANGED <<containerVars, context_file_id, tasks>>

\* TemporaryFileManager._periodic_cleanup: one pass of the loop after its sleep
FilePeriodicCleanup(failing) ==
    /\ file_cleanup_task = "running"
    /\ LET c == _cleanup_old_files(temp_files, host_files, now, failing)
       IN /\ temp_files' = c.files
          /\ host_files' = c.disk
    /\ UNCHANGED <<cwd, host_dirs, archives, next_file_id, fret>>
    /\ UNCHANGED <<containerVars, context_file_id, file_cleanup_task, tasks>>

\* TemporaryFileManager._periodic_cleanup: CancelledError arrives at the sleep,
\* the loop breaks
FileCleanupCancelled ==
    /\ file_cleanup_task = "cancelling"
    /\ file_cleanup_task' = "done"
    /\ tasks' = [tasks EXCEPT !.files = @ - 1]
    /\ UNCHANGED <<cwd, host_files, host_dirs, archives, temp_files, next_file_id, fret>>
    /\ UNCHANGED <<containerVars, context_file_id>>

\* a process that starts and stops both cleanup tasks while containers are
\* registered and temporary files are created
NextTasks ==
    \/ StartCleanupTask
    \/ StopCleanupTask
    \/ PeriodicCleanup
    \/ CleanupCancelled
    \/ FileStartCleanupTask
    \/ FileStopCleanupTask
    \/ \E failing \in SUBSET DOMAIN temp_files : FilePeriodicCleanup(failing)
    \/ FileCleanupCancelled
    \/ PoolAdd("running", FALSE, "python")
    \/ CreateSecureTempFile("ab", "a.py", "ok", {})
    \/ Tick

SpecTasks == Init /\ [][NextTasks]_vars

\* a process that keeps a temporary_file_context open while the store's
\* cleanup task runs and other temporary files are created; nothing is deleted
\* by hand
NextScopeReclaim ==
    \/ \E b \in ContentInputs, w \in WriteOutcomes,
          failing \in SUBSET DOMAIN temp_files :
              TemporaryFileContextEnter(b, "a.py", w, failing)
    \/ \E k \in ExitKinds, u \in BOOLEAN : TemporaryFileContextExit(k, u)
    \/ \E b \in ContentInputs, failing \in SUBSET DOMAIN temp_files :
          CreateSecureTempFile(b, "a.py", "ok", failing)
    \/ FileStartCleanupTask
    \/ \E failing \in SUBSET DOMAIN temp_files : FilePeriodicCleanup(failing)
    \/ Tick

SpecScopeReclaim == Init /\ [][NextScopeReclaim]_vars

\* ------------------------------------------------------------------ claims
IdleTime(c) == now - wrappers[c].last_used

\* C1: get_container_for_language returns a tracked container whose in_use flag
\* was false until this call set it (so a second call returns the same id only
\* after the flag was cleared), leaves that descriptor with in_use = TRUE and
\* last_used = now, and returns None when no tracked descriptor is free, running
\* and within idle_timeout.
C1_GetContainerForLanguage ==
    [][\A t \in Threads :
         /\ (pc[t] = "idle" /\ pc'[t] = "get_mark") =>
               /\ loc'[t] # None => loc'[t] \in Tracked /\ ~wrappers[loc'[t]].in_use
               /\ (\A c \in Tracked : \/ wrappers[c].in_use
                                      \/ wrappers[c].status # "running"
                                      \/ IdleTime(c) >= idle_timeout) => loc'[t] = None
         /\ (pc[t] = "get_mark" /\ pc'[t] = "exit") =>
               /\ ret'[t] = Result("get", loc[t], "none")
               /\ loc[t] # None => /\ ~wrappers[loc[t]].in_use
                                   /\ wrappers'[loc[t]].in_use
                                   /\ wrappers'[loc[t]].last_used = now
      ]_vars

\* a call has just returned container c while another container is still held
C1_Witness ==
    \E t \in Threads, c \in Tracked, d \in Tracked :
        /\ pc[t] = "exit" /\ ret[t] = Result("get", c, "none")
        /\ wrappers[c].in_use /\ wrappers[c].last_used = now
        /\ d # c /\ wrappers[d].in_use

\* C2: in every pool state and for every language argument, whatever
\* get_available_container returns is tracked, not in use, Running and idle for
\* less than idle_timeout.
C2_GetAvailableOnlyEligible ==
    \A language \in Langs \cup {NoLang} :
        \A r \in get_available_container(language, pool_keys, language_pools, wrappers, now) :
            r # None => /\ r \in Tracked
                        /\ ~wrappers[r].in_use
                        /\ wrappers[r].status = "running"
                        /\ IdleTime(r) < idle_timeout

\* a lookup has returned a container while the pool also holds a free container
\* that is not Running and a free Running one idle for idle_timeout or more
C2_Witness ==
    \E t \in Threads, c \in Tracked, d \in Tracked :
        /\ pc[t] = "get_mark" /\ loc[t] \in Tracked \ {c, d}
        /\ ~wrappers[c].in_use /\ wrappers[c].status \in Terminal /\ IdleTime(c) < idle_timeout
        /\ ~wrappers[d].in_use /\ wrappers[d].status = "running" /\ IdleTime(d) >= idle_timeout

\* C3: while execute_in_container runs its command the descriptor has
\* in_use = TRUE; when the call ends, with a result, an ExecutionError or a
\* TimeoutError, the flag is FALSE; for an id the pool does not track the call
\* fails with NotFound and neither runs a command nor changes a descriptor.
C3_ExecuteMarksAndUnmarks ==
    [][\A t \in Threads :
         /\ pc'[t] = "exec_run" => loc'[t] \in Tracked' /\ wrappers'[loc'[t]].in_use
         /\ (pc[t] = "exec_run" /\ pc'[t] # "exec_run") =>
               /\ pc'[t] = "exit"
               /\ ret'[t].op = "exec" /\ ret'[t].val = loc[t]
               /\ ret'[t].err \in {"none", "ExecutionError", "TimeoutError"}
               /\ ~wrappers'[loc[t]].in_use
         /\ (pc[t] = "idle" /\ pc'[t] = "exit" /\ ret'[t].op = "exec") =>
               /\ ret'[t].err = "NotFound"
               /\ ret'[t].val \notin Tracked
               /\ wrappers' = wrappers
         /\ (pc[t] = "idle" /\ pc'[t] = "exit" /\ ret'[t].err = "NotFound") =>
               ret'[t].op = "exec"
      ]_vars

\* a command has ended with a TimeoutError and the container is free again
C3_Witness ==
    \E t \in Threads, c \in Tracked :
        /\ pc[t] = "exit" /\ ret[t] = Result("exec", c, "TimeoutError")
        /\ ~wrappers[c].in_use

\* C4: however the scope of get_container is left (normally, by an exception,
\* by cancellation), return_container_to_pool has run for the yielded
\* container: if it is still tracked it has in_use = FALSE and last_used = now.
C4_ScopeReturnsContainer ==
    [][\A t \in Threads :
         (scope[t] = "body" /\ scope'[t] # "body") =>
             /\ scope'[t] = "none"
             /\ ret'[t].op = "scope" /\ ret'[t].val = held[t] /\ ret'[t].err \in ExitKinds
             /\ held[t] \in Tracked' =>
                   /\ ~wrappers'[held[t]].in_use
                   /\ wrappers'[held[t]].last_used = now
      ]_vars

\* a scope that ran a command in a reused container was cancelled later, and
\* its container is free
C4_Witness ==
    \E t \in Threads, c \in Tracked :
        /\ pc[t] = "exit" /\ ret[t] = Result("scope", c, "cancelled")
        /\ scope[t] = "none"
        /\ ~wrappers[c].in_use /\ wrappers[c].last_used = now /\ now > 0

\* no tracked container is free and idle for longer than idle_timeout
NoneEvictable ==
    \A c \in Tracked : wrappers[c].in_use \/ IdleTime(c) <= idle_timeout

\* C5: create_and_start_container fails with PoolExhausted exactly when the
\* pool holds max_pool_size descriptors and none of them is free and idle for
\* longer than idle_timeout; otherwise it goes on to create the container, and
\* returns its id when the runtime's create and start succeed.
C5_PoolExhaustedIff ==
    [][\A t \in Threads :
         /\ (pc[t] = "idle" /\ (pc'[t] = "create_run" \/ ret'[t].op = "create")) =>
               /\ (pc'[t] = "exit" /\ ret'[t] = Result("create", None, "PoolExhausted"))
                     <=> (Len(pool_keys) = max_pool_size /\ NoneEvictable)
               /\ (pc'[t] = "create_run")
                     <=> ~(Len(pool_keys) = max_pool_size /\ NoneEvictable)
         /\ (pc[t] = "create_run" /\ pc'[t] # "create_run") =>
               /\ pc'[t] = "exit" /\ ret'[t].op = "create"
               /\ ret'[t].err # "PoolExhausted"
               /\ ret'[t].err = "none" =>
                     ret'[t].val \in Tracked' \ Tracked /\ Len(pool_keys') <= max_pool_size
      ]_vars

\* with no cleanup task ever started, a third container was created in a pool
\* of two: the create call itself evicted an idle one
C5_Witness ==
    \E t \in Threads :
        /\ pc[t] = "exit" /\ ret[t] = Result("create", MaxIds, "none")
        /\ cleanup_task = "none"
        /\ Len(pool_keys) = max_pool_size
        /\ Cardinality(runtime) = max_pool_size + 1

\* the tracked containers cleanup_idle_containers is to evict
Evictable == {c \in Tracked : ~wrappers[c].in_use /\ IdleTime(c) > idle_timeout}

\* C6: a pass of cleanup_idle_containers removes from the pool, and from the
\* language index, exactly the descriptors with in_use = FALSE and idle time
\* greater than idle_timeout, and returns exactly their ids; a descriptor in
\* use stays, however long it has been idle.
C6_CleanupIdleExact ==
    [][PeriodicCleanup =>
         /\ Tracked' = Tracked \ Evictable
         /\ Range(containers_to_remove(pool_keys, wrappers, now)) = Tracked \ Tracked'
         /\ \A l \in DOMAIN language_pools : language_pools'[l] = language_pools[l] \ Evictable
         /\ \A c \in Tracked : wrappers[c].in_use => c \in Tracked' /\ wrappers'[c] = wrappers[c]
      ]_vars

\* after a pass the pool holds a container in use that has been idle longer
\* than idle_timeout, and a free one was evicted
C6_Witness ==
    /\ cleanup_task = "running"
    /\ \E c \in Tracked : wrappers[c].in_use /\ IdleTime(c) > idle_timeout
    /\ \E c \in runtime \ Tracked : c \notin DOMAIN wrappers
    /\ \A c \in Tracked : ~(~wrappers[c].in_use /\ IdleTime(c) > idle_timeout)
    /\ \A t \in Threads : pc[t] = "idle"

\* C7: a descriptor whose status is Exited or Dead is evicted by the operation
\* that observes it: after execute_in_container or return_container_to_pool on
\* it, and after a lookup that went through the whole pool without finding a
\* container, it is no longer tracked.
C7_TerminalEvicted ==
    [][\A t \in Threads :
         /\ (pc'[t] = "exit" /\ pc[t] # "exit" /\ ret'[t].op \in {"exec", "return"}) =>
               \A c \in Tracked :
                   (c = ret'[t].val /\ wrappers[c].status \in Terminal) => c \notin Tracked'
         /\ (pc[t] = "idle" /\ pc'[t] = "get_mark" /\ loc'[t] = None) =>
               \A c \in Tracked : wrappers[c].status \in Terminal => c \notin Tracked'
      ]_vars

\* C8: the manager lock is not held while the runtime command of
\* execute_in_container runs, so a caller can start a command in another
\* container while one is running.
C8_LockFreeWhileCommandRuns ==
    \A t \in Threads :
        pc[t] = "exec_run" =>
            /\ lock_owner # t
            /\ \A u \in Threads \ {t}, c \in Tracked \ {loc[t]} :
                   (pc[u] = "idle" /\ scope[u] = "none") => ENABLED ExecBegin(u, c)

\* C9: while a command runs in a container, a second caller's
\* execute_in_container on the same container is neither made to wait nor
\* rejected: it can start its command right away.
C9_SameContainerNotSerialized ==
    \A t \in Threads, u \in Threads :
        (t # u /\ pc[t] = "exec_run" /\ pc[u] = "idle" /\ scope[u] = "none") =>
            ENABLED (ExecBegin(u, loc[t]) /\ pc'[u] = "exec_run")

\* C10: every change of the pool happens under one and the same lock, the
\* manager's: the periodic pass of cleanup_idle_containers never runs while a
\* caller is inside an operation of the manager.
C10_OneLock ==
    [][PeriodicCleanup => lock_owner = None]_vars

\* C11: remove_container never raises and leaves the container out of the pool
\* and out of every set of the language index, whatever the runtime's stop and
\* remove do (succeed, raise APIError, raise another error).
C11_RemoveNeverRaises ==
    [][\A t \in Threads :
         (pc[t] = "idle" /\ pc'[t] = "exit" /\ ret'[t].op = "remove") =>
             /\ ret'[t].err = "none"
             /\ ret'[t].val \notin Tracked'
             /\ \A l \in DOMAIN language_pools' : ret'[t].val \notin language_pools'[l]
      ]_vars

\* a remove_container has returned for a tracked container whose runtime remove
\* was issued and failed: the container still exists in the runtime, the pool
\* no longer tracks it
C11_Witness ==
    \E t \in Threads, c \in runtime \ Tracked :
        /\ pc[t] = "exit" /\ ret[t] = Result("remove", c, "none")
        /\ [call |-> "stop", id |-> c] \in runtime_calls
        /\ [call |-> "remove", id |-> c] \in runtime_calls

\* C12: remove_container issues the runtime's remove for the container it took
\* out of the pool in every case, also when the stop before it failed with any
\* error; every pass of the loop of cleanup_all_containers therefore issues the
\* remove for the id it handles, and the pool is empty when the call returns.
C12_RemoveAlwaysIssued ==
    [][\A t \in Threads :
         /\ (pc[t] = "idle" /\ pc'[t] = "exit" /\ ret'[t].op = "remove"
                /\ ret'[t].val \in Tracked) =>
               [call |-> "remove", id |-> ret'[t].val] \in runtime_calls'
         /\ (pc[t] = "cleanup_all" /\ container_ids # << >>
                /\ container_ids' = Tail(container_ids)) =>
               [call |-> "remove", id |-> Head(container_ids)] \in runtime_calls'
         /\ (pc[t] = "cleanup_all" /\ pc'[t] = "exit") => pool_keys' = << >>
      ]_vars

\* C13: execute_in_container ends with TimeoutError exactly when the runtime's
\* exec ran into the wall-clock timeout: a timed-out exec never ends with
\* ExecutionError or a normal result, and a failure that is not a timeout never
\* ends with TimeoutError.
C13_TimeoutClassifiedExactly ==
    [][\A t \in Threads, o \in ExecOutcomes :
         ExecEnd(t, o) =>
             /\ o.timed_out => ret'[t].err = "TimeoutError"
             /\ ~o.timed_out => ret'[t].err # "TimeoutError"
      ]_vars

\* C17: whatever volumes argument create_and_start_container is called with,
\* the configuration it passes to the runtime has a read-only root filesystem
\* and no bind mount with a writable mode: the tmpfs mounts are the only
\* writable paths.
C17_NoWritableMount ==
    container_config # NoConfig =>
        /\ container_config.read_only
        /\ container_config.tmpfs = {"/tmp", "/var/tmp"}
        /\ \A v \in container_config.volumes : v.mode = "ro"

\* C14: after any sequence of add_container and remove_container, also one
\* that adds a descriptor for an id the pool already tracks, the set the
\* language index holds for a language is exactly the set of tracked ids whose
\* descriptor has that language, and get_container_count(language) is their
\* number.
C14_IndexIsPartition ==
    \A l \in Langs :
        /\ l \in DOMAIN language_pools =>
               language_pools[l] = {c \in Tracked : wrappers[c].language = l}
        /\ get_container_count(l) = Cardinality({c \in Tracked : wrappers[c].language = l})

\* the tracked descriptors that are free, Running and idle for less than
\* idle_timeout
Reusable ==
    {c \in Tracked : /\ ~wrappers[c].in_use
                     /\ wrappers[c].status = "running"
                     /\ IdleTime(c) < idle_timeout}

\* the descriptors a lookup for language l is to choose from: the reusable ones
\* of that language, or all reusable ones when there is none
Preferred(l) ==
    IF \E c \in Reusable : wrappers[c].language = l
    THEN {c \in Reusable : wrappers[c].language = l}
    ELSE Reusable

C16_MostRecentlyUsed ==
    \A l \in Langs :
        \A r \in get_available_container(l, pool_keys, language_pools, wrappers, now) :
            r # None =>
                \A c \in Preferred(l) : wrappers[c].last_used <= wrappers[r].last_used

\* C18: every mount specification create_volume_mount returns has mode "ro",
\* whatever host path, container path and mode the caller passes.
C18_MountAlwaysReadOnly ==
    (fret.op = "create_volume_mount" /\ fret.err = "none") => fret.val.mode = "ro"

\* C19: a copy_to_container or copy_from_container whose host path or container
\* path SecurePathValidator rejects ends with FileTransferError and moves
\* nothing: the container receives no archive, no host file is written.
C19_BothEndsValidated ==
    [][\A hp \in PathInputs, cp \in PathInputs, o \in ArchiveOutcomes :
         ((CopyToContainer(hp, cp, o) \/ CopyFromContainer(cp, hp, o))
            /\ (validate_path(hp, cwd).err # "none" \/ validate_path(cp, cwd).err # "none")) =>
             /\ fret'.err = "FileTransferError"
             /\ archives' = archives
             /\ host_files' = host_files
      ]_vars

\* the file names of FilenameInputs that are to be refused: an extension
\* outside the allow-list, a dangerous character, a reserved device name
RefusedNames == {"a.exe", "a<.py", "nul.py"}

\* C20: when create_secure_temp_file rejects its input (content longer than
\* max_file_size, extension outside the allow-list, unsafe file name) it raises
\* FileSecurityError and the record map and the files on disk are as before
\* the call: nothing is written, no record is added, nothing is reclaimed.
\* (A rejected call never gets to removing files, so it is the same step for
\* every set of files that cannot be removed.)
C20_RejectionChangesNothing ==
    [][\A b \in ContentInputs, n \in FilenameInputs, w \in WriteOutcomes :
         ((Len(b) > max_file_size \/ n \in RefusedNames)
            /\ CreateSecureTempFile(b, n, w, {})) =>
             /\ fret' = Result("create_secure_temp_file", None, "FileSecurityError")
             /\ temp_files' = temp_files
             /\ host_files' = host_files
      ]_vars

\* a create was rejected while the store was full and held a record older than
\* cleanup_interval: an accepted create would have reclaimed it
C20_Witness ==
    /\ fret = Result("create_secure_temp_file", None, "FileSecurityError")
    /\ Cardinality(DOMAIN temp_files) = max_temp_files
    /\ \E f \in DOMAIN temp_files :
           /\ now - temp_files[f].created_at > cleanup_interval
           /\ temp_files[f].path \in DOMAIN host_files

\* the records of the store that have aged past cleanup_interval
Aged == {f \in DOMAIN temp_files : now - temp_files[f].created_at > cleanup_interval}

\* C21: a create that passed validation fails with CapacityExceeded exactly
\* when the store holds max_temp_files records and none of them has aged past
\* cleanup_interval; the store never holds more than max_temp_files records;
\* and a create at the limit whose write goes through succeeds once a record
\* has aged past cleanup_interval.
C21_CapacityExceededIff ==
    [][\A b \in ContentInputs, n \in FilenameInputs \ RefusedNames, w \in WriteOutcomes,
          failing \in SUBSET DOMAIN temp_files :
         (Len(b) <= max_file_size /\ CreateSecureTempFile(b, n, w, failing)) =>
             /\ fret'.err = "CapacityExceeded" <=>
                    (Cardinality(DOMAIN temp_files) >= max_temp_files /\ Aged = {})
             /\ Cardinality(DOMAIN temp_files') <= max_temp_files
             /\ (Cardinality(DOMAIN temp_files) >= max_temp_files /\ Aged # {} /\ w = "ok") =>
                    /\ fret'.err = "none"
                    /\ fret'.val \in DOMAIN temp_files'
      ]_vars

\* a create was refused at the limit although time has passed: the oldest
\* record is exactly cleanup_interval old, which is not past it
C21_Witness ==
    /\ fret = Result("create_secure_temp_file", None, "CapacityExceeded")
    /\ Cardinality(DOMAIN temp_files) = max_temp_files
    /\ \E f \in DOMAIN temp_files : now - temp_files[f].created_at = cleanup_interval

\* the paths a temporary file with this id can have on the host
PathsOf(id) == {temp_dir \o "/" \o ToString(id) \o "_" \o n : n \in FilenameInputs}

\* C22 as stated: after the scope of temporary_file_context is left, normally
\* or by an exception, the file it created is neither tracked nor on disk.
C22_ScopeLeavesNothing ==
    [][\A k \in ExitKinds, u \in BOOLEAN :
         TemporaryFileContextExit(k, u) =>
             /\ context_file_id \notin DOMAIN temp_files'
             /\ PathsOf(context_file_id) \cap DOMAIN host_files' = {}
      ]_vars

\* C22 as amended: after the scope is left, however the body ended, the file
\* it created is not tracked; a file the store still tracked is gone from the
\* disk when its removal went through and is left on disk, untracked, when
\* the removal failed.
C22_ScopeLeavesStore ==
    [][\A k \in ExitKinds, u \in BOOLEAN :
         TemporaryFileContextExit(k, u) =>
             /\ context_file_id \notin DOMAIN temp_files'
             /\ context_file_id \in DOMAIN temp_files =>
                   (temp_files[context_file_id].path \in DOMAIN host_files' <=> ~u)
      ]_vars

\* a scope whose body raised has been left: its file is gone from the store
\* and from the disk, while another temporary file is still there
C22_Witness ==
    /\ fret.op = "temporary_file_context" /\ fret.err = "exception"
    /\ context_file_id = None
    /\ fret.val \notin DOMAIN temp_files
    /\ PathsOf(fret.val) \cap DOMAIN host_files = {}
    /\ temp_files # << >>

\* C23: a create_secure_temp_file that returned an id has stored exactly the
\* bytes it was given under the path of that id; verify_file_integrity(id, d)
\* is true exactly for the digest of those bytes while the id is tracked, and
\* false for every digest once the file was deleted.
C23_IntegrityRoundTrip ==
    [][/\ \A b \in ContentInputs, n \in FilenameInputs \ RefusedNames,
             failing \in SUBSET DOMAIN temp_files :
            (Len(b) <= max_file_size /\ CreateSecureTempFile(b, n, "ok", failing)
               /\ fret'.err = "none") =>
                /\ host_files'[get_temp_file_path(fret'.val, temp_files')] = b
                /\ temp_files'[fret'.val].checksum = sha256(b)
       /\ \A f \in FileIds, d \in ChecksumInputs :
            VerifyFileIntegrity(f, d) =>
                /\ fret'.err = "none"
                /\ fret'.val <=>
                      /\ f \in DOMAIN temp_files
                      /\ d = temp_files[f].checksum
      ]_vars

\* verify_file_integrity has returned False although the bytes of the one file
\* created so far are still on disk: the file was deleted, its removal from
\* the disk failed, its id is not tracked any more
C23_Witness ==
    /\ fret = Result("verify_file_integrity", FALSE, "none")
    /\ next_file_id = 2
    /\ temp_files = << >>
    /\ DOMAIN host_files # DOMAIN HostFiles

RejectedBases == {"/usr/src"}

UnderDenyList(p) ==
    \E blocked \in blocked_paths : p = blocked \/ startswith(p, blocked \o "/")

\* C25: validate_path raises PathValidationError for every path whose resolved
\* form is a deny-listed directory or lies beneath one, and returns the
\* resolved path for every path that lies outside all of them.
C25_DenyListExact ==
    [][\A path \in ValidateInputs :
         ValidatePath(path) =>
             IF UnderDenyList(resolve(path, cwd))
             THEN fret'.err = "PathValidationError"
             ELSE fret' = Result("validate_path", resolve(path, cwd), "none")
      ]_vars

\* the traversal inputs: ".." segments followed by etc/passwd, relative or
\* below /tmp
TraversalInputs ==
    {prefix \o ups \o "etc/passwd" :
        prefix \in {"", "/tmp/"}, ups \in {"../", "../../", "../../../"}} \
    {"/tmp/../etc/passwd"}

\* C26: validate_path raises PathValidationError for every traversal input,
\* whatever directory the process runs in.
C26_TraversalRejected ==
    [][\A path \in TraversalInputs :
         ValidatePath(path) => fret'.err = "PathValidationError"
      ]_vars
\* C27: each periodic cleanup task, the pool's and the store's, has idempotent
\* start and stop: an object never has more than one task that has not
\* finished, a start while a task is running creates no task and leaves the
\* handle alone, and a stop when no task was ever started changes neither the
\* handle, nor the tasks, nor what the object tracks.
C27_TasksIdempotent ==
    /\ [](tasks.pool <= 1 /\ tasks.files <= 1)
    /\ [][/\ StartCleanupTask /\ cleanup_task = "running"
               => UNCHANGED <<cleanup_task, tasks>>
          /\ fret'.op = "start_cleanup_task" /\ FileStartCleanupTask
                 /\ file_cleanup_task = "running"
               => UNCHANGED <<file_cleanup_task, tasks>>
          /\ StopCleanupTask /\ cleanup_task = "none"
               => UNCHANGED <<cleanup_task, tasks, poolVars>>
          /\ fret'.op = "stop_cleanup_task" /\ FileStopCleanupTask
                 /\ file_cleanup_task = "none"
               => UNCHANGED <<file_cleanup_task, tasks, temp_files, host_files>>]_vars

\* the store's start was called while its task was running and created
\* nothing, and the pool's task is running as well
C27_Witness ==
    /\ fret.op = "start_cleanup_task" /\ fret.val = 0
    /\ file_cleanup_task = "running"
    /\ cleanup_task = "running"
    /\ tasks = [pool |-> 1, files |-> 1]

\* C28: a lookup for a language returns None when the pool tracks no
\* descriptor of that language, even if it tracks reusable descriptors of
\* other languages.
C28_NoneWithoutLanguage ==
    [][\A t \in Threads, l \in Langs :
         (/\ Lookup(t, l)
          /\ \A c \in Tracked : wrappers[c].language # l)
         => loc'[t] = None]_vars

\* C29: when remove_container removes the last tracked container of a
\* language, the language index no longer has a key for that language.
C29_KeyGoesWithLastContainer ==
    [][\A c \in PoolIds :
         (/\ c \in Tracked
          /\ PoolRemoveContainer(c)
          /\ \A d \in Range(pool_keys') : wrappers'[d].language # wrappers[c].language)
         => wrappers[c].language \notin DOMAIN language_pools']_vars

\* C30: a container that get_container_for_language returned to a caller is
\* returned to no other caller before it is given back with
\* return_container_to_pool, even if its owner runs commands in it meanwhile:
\* two callers never hold the same container between acquisition and return.
C30_OwnedUntilReturned ==
    \A t \in Threads, u \in Threads :
        ~(/\ t # u
          /\ scope[t] = "body" /\ scope[u] = "body"
          /\ held[t] # None /\ held[t] = held[u])

\* C31: at the step that makes the scope of get_container yield a container,
\* reused from the pool or newly created, that container has in_use = TRUE, so
\* that no lookup of another caller can return it.
C31_YieldedInUse ==
    [][\A t \in Threads :
         (scope[t] # "body" /\ scope'[t] = "body")
         => wrappers'[held'[t]].in_use]_vars

\* C32: no runtime container is orphaned: every container that exists in the
\* runtime is tracked in the pool, also after an idle cleanup has evicted a
\* descriptor and after a create whose start step failed.
C32_NoOrphan == runtime \subseteq Tracked

\* C33: a cleanup pass that runs while callers use the manager never removes
\* from the pool a descriptor that, when it is removed, has in_use = TRUE or
\* has a command running in it.
C33_CleanupSparesBusy ==
    [][CleanupRemove =>
         \A c \in Tracked \ Range(pool_keys') :
             /\ ~wrappers[c].in_use
             /\ \A t \in Threads : ~(pc[t] = "exec_run" /\ loc[t] = c)]_vars

\* C34: whatever the interleaving of the creates, removes and idle cleanups
\* made through the manager, the pool never tracks more than max_pool_size
\* descriptors.
C34_PoolNeverOverfull == Len(pool_keys) <= max_pool_size

\* after a descriptor has left the pool (removed or evicted) a create has just
\* filled the pool again, up to max_pool_size
C34_Witness ==
    \E t \in Threads, c \in Tracked :
        /\ pc[t] = "exit" /\ ret[t] = Result("create", c, "none")
        /\ Len(pool_keys) = max_pool_size
        /\ c > max_pool_size

\* the outcomes of a create whose runtime create or start step fails
CreateFailures == CreateOutcomes \ {"ok"}

\* C35: a create_and_start_container that fails at the runtime's create or
\* start leaves the set of tracked descriptors as it was before the call.  A
\* create that has reached the runtime can still fail, so neither its steps up
\* to the runtime nor its failing end may change the pool.
C35_FailedCreateKeepsPool ==
    [][\A t \in Threads :
         /\ \A l \in Langs :
               (CreateBegin(t, l) /\ pc'[t] = "create_run") => pool_keys' = pool_keys
         /\ \A o \in CreateFailures, v \in VolumeInputs :
               CreateFinish(t, o, v) => pool_keys' = pool_keys]_vars

\* C35 (amended): a create that fails at the runtime has added no descriptor:
\* its failing end leaves the pool and the language index as they are, and up
\* to the runtime the call removes exactly the descriptors that the cleanup of
\* a full pool evicts (not in use, idle for more than idle_timeout).
C35_FailedCreateAddsNothing ==
    [][\A t \in Threads :
         /\ \A l \in Langs :
               (CreateBegin(t, l) /\ pc'[t] = "create_run") =>
                   /\ Range(pool_keys') \subseteq Tracked
                   /\ Tracked \ Range(pool_keys') =
                        IF Len(pool_keys) >= max_pool_size
                        THEN {c \in Tracked : /\ ~wrappers[c].in_use
                                              /\ now - wrappers[c].last_used > idle_timeout}
                        ELSE {}
         /\ \A o \in CreateFailures, v \in VolumeInputs :
               CreateFinish(t, o, v) =>
                   pool_keys' = pool_keys /\ language_pools' = language_pools]_vars

\* a create on a full pool has evicted an idle descriptor and has then failed
\* at the start of its container: three containers are in the runtime, fewer
\* than max_pool_size are tracked
C35_Witness ==
    \E t \in Threads :
        /\ pc[t] = "exit" /\ ret[t] = Result("create", None, "StartFailed")
        /\ Len(pool_keys) < max_pool_size
        /\ Cardinality(runtime) > max_pool_size

\* C36: while the body of a temporary_file_context is running, the file the
\* scope created stays tracked and on disk: no pass of the cleanup task and no
\* cleanup made by a create at the limit removes it.
C36_OpenScopeKeepsFile ==
    [][(/\ context_file_id # None
        /\ context_file_id' = context_file_id
        /\ context_file_id \in DOMAIN temp_files)
       => /\ context_file_id \in DOMAIN temp_files'
          /\ temp_files[context_file_id].path \in DOMAIN host_files']_vars

\* C37: cleanup_temp_files called with a list removes the listed ids only,
\* leaves every other record as it is and returns the number of files it
\* deleted; with an empty list it removes nothing.  Only a call without a list
\* removes every record.
C37_CleanupListedOnly ==
    [][\A l \in FileIdLists, failing \in SUBSET DOMAIN temp_files :
         (fret'.op = "cleanup_temp_files" /\ CleanupTempFiles(l, failing)) =>
            IF l.given
            THEN /\ DOMAIN temp_files' = DOMAIN temp_files \ Range(l.ids)
                 /\ \A f \in DOMAIN temp_files' : temp_files'[f] = temp_files[f]
                 /\ fret'.val = Cardinality(DOMAIN host_files \ DOMAIN host_files')
            ELSE temp_files' = << >>]_vars

\* C38: every file the store has written and that is still on disk has a
\* record: a delete whose unlink fails keeps the record, a delete of an unknown
\* id changes nothing.
C38_NoUntrackedLeftover ==
    \A q \in DOMAIN host_files \ DOMAIN HostFiles :
        \E f \in DOMAIN temp_files : temp_files[f].path = q

\* C39: when start_cleanup_task returns, the object has a cleanup task that
\* is running and has not been cancelled, also when the start comes right
\* after a stop whose cancelled task has not finished yet.
C39_StartLeavesTaskRunning ==
    [][/\ (fret'.op = "start_cleanup_task" /\ FileStartCleanupTask)
            => file_cleanup_task' = "running"
       /\ StartCleanupTask => cleanup_task' = "running"]_vars

\* C40: the test of get_available_container and the test of
\* cleanup_idle_containers are complementary: at every time each tracked
\* descriptor that is running and not in use either can be handed out or is
\* evicted by a cleanup.
C40_EligibleOrEvicted ==
    \A c \in Tracked :
        (wrappers[c].status = "running" /\ ~wrappers[c].in_use)
        => (Eligible(wrappers[c], now) \/ IdleExpired(wrappers[c], now))

\* C40 (amended): the two tests never hold together, and each tracked
\* descriptor that is running and not in use can be handed out while its idle
\* time is below idle_timeout, is evicted by a cleanup once it is above, and is
\* neither when it equals idle_timeout exactly.
C40_ComplementaryButAtTimeout ==
    \A c \in Tracked :
        (wrappers[c].status = "running" /\ ~wrappers[c].in_use)
        => LET idle == now - wrappers[c].last_used
           IN /\ Eligible(wrappers[c], now) <=> idle < idle_timeout
              /\ IdleExpired(wrappers[c], now) <=> idle > idle_timeout

\* a tracked descriptor, running and not in use, has been idle for exactly
\* idle_timeout after a cleanup has evicted an older one
C40_Witness ==
    \E c \in Tracked :
        /\ wrappers[c].status = "running" /\ ~wrappers[c].in_use
        /\ now - wrappers[c].last_used = idle_timeout
        /\ Len(pool_keys) = 1
        /\ \E l \in DOMAIN language_pools : language_pools[l] = {}

====
